---- MODULE Spec2Model ----
(***************************************************************************)
(* A model of the Performance Suite real-time core:                        *)
(*   - SessionManager / MusicalContext  (src/src/agent_system/             *)
(*     session_manager.py): the musical clock, its command queue and the   *)
(*     audio-derived context updates;                                      *)
(*   - BandmateAgent.on_context_update   (src/src/agent_system/            *)
(*     bandmate_agent.py): the per-tick decision to push a note batch;     *)
(*   - DrumsAgent / BassAgent (same file): the pattern templates and       *)
(*     generate_notes;                                                     *)
(*   - MidiGenerator (src/src/midi_generation/midi_generator.py): note-on, *)
(*     scheduled note-off, the note-off timer loop, all_notes_off, start   *)
(*     and stop;                                                           *)
(*   - AnimationController (src/src/animation_control/                     *)
(*     animation_controller.py): update_from_musical_context.              *)
(*                                                                         *)
(* Numbers.  The code computes with floats; the model computes exactly.    *)
(* beat_position is kept in units of 1/(60*update_rate) of a beat, so that *)
(* the increment of one tick, (tempo/60)/update_rate beats, is exactly     *)
(* `tempo` units and one beat is BeatUnit = 60*update_rate units.          *)
(* dynamics is kept in percent (0.5 is 50).  Times of the MIDI scheduler   *)
(* are integers (one unit is one step of the clock the timer loop reads).  *)
(***************************************************************************)
EXTENDS Integers, Sequences, FiniteSets, TLC

VARIABLES
    \* ---- SessionManager ----
    update_rate,        \* SessionManager.update_rate (Hz)
    context,            \* the one MusicalContext instance (a record)
    control_commands,   \* SessionManager.control_commands (a list)
    audio_features,     \* SessionManager.audio_features (the last dictionary)
    is_active,          \* BandmateAgent.is_active, per registered agent
    \* ---- the tick thread inside update_cycle (interleaved specification) ----
    pc,                 \* "idle" | "advance" | "agents" | "listeners"
    agent_idx,          \* index of the next agent to notify
    seen,               \* what the agents called so far in this tick read
    \* ---- what the last update_cycle did (observations, not program state) ----
    pushed,             \* agents that called their note listeners, in order
    ticks,              \* number of update_cycle calls so far
    steady,             \* every update_cycle so far advanced the beat ...
    run_tempo,          \* ... at this tempo (0 when none yet, or not steady)
    \* ---- MidiGenerator ----
    midi_out,           \* TRUE when an output port is open
    running,            \* MidiGenerator._running
    active_notes,       \* {channel: {note: velocity}} in insertion order
    note_off_queue,     \* MidiGenerator._note_off_queue
    now,                \* the clock time.time() reads
    sent,               \* messages the last operation sent to the port
    raised,             \* exception that escaped the last operation
    \* ---- DrumsAgent / BassAgent ----
    drum_patterns,      \* DrumsAgent.patterns
    bass_patterns,      \* BassAgent.patterns
    generated,          \* the list the last generate_notes call returned
    notes_by,           \* the agent that call was made on ("none" before any)
    \* ---- AnimationController ----
    animation_state,    \* AnimationController.animation_state
    protocol,           \* AnimationController.protocol
    osc_client,         \* TRUE while AnimationController.osc_client is set
    websocket_client,   \* TRUE while ...websocket_client is set
    osc_sent,           \* messages the last operation sent to the renderer
    anim_raised,        \* exception that escaped the last operation
    \* ---- what the controller did so far (observations) ----
    emitted,            \* the last tempo, section and intensity sent, if any
    last_dict,          \* the dictionary of the last call, if any
    \* ---- PerformanceSuite and its threads ----
    suite_running,      \* PerformanceSuite._running
    sm_running,         \* SessionManager._running
    stop_pc,            \* where the thread inside PerformanceSuite.stop() is
    loop_at,            \* per loop thread: "none" | "check" | "body" | "exited"
    \* ---- AudioInputHandler ----
    audio_running,      \* AudioInputHandler._running
    stream,             \* AudioInputHandler.stream: "none" | "created" | "started"
    stream_log,         \* calls the last operation made on sounddevice
    audio_raised,       \* exception that escaped the last operation
    audio_buffer,       \* AudioInputHandler.audio_buffer (the deque)
    stats,              \* AudioInputHandler.stats
    \* ---- AudioAnalyzer ----
    analyzer,           \* the analyzer's histories and current values
    analysis,           \* what the last analyze_frame returned, if it did
    analyzer_raised,    \* exception that escaped the last analyze_frame
    \* ---- positions inside process_control_commands and _note_off_loop ----
    cmd_idx,            \* commands the for loop has gone through
    timer_pc,           \* "idle" | "store"
    timer_time,         \* the timer loop's current_time
    timer_keep,         \* the list the timer loop is about to store
    \* ---- PerformanceSuite._audio_buffer, its lock and the two threads ----
    suite_buffer,       \* _audio_buffer: the blocks appended, oldest first
    buffer_lock,        \* _audio_buffer_lock: "none" | "callback" | "loop"
    cb_pc,              \* the driver's thread: "idle" | "append"
    cb_block,           \* the block the driver's thread is delivering
    proc_pc,            \* the loop: "idle"|"read"|"clear"|"test"|"analyze"
    proc_data,          \* audio_data: << >> for None, else << the frame >>
    delivered,          \* the samples the driver has delivered, in order
    analyzed,           \* the frames analyze_frame was called with, in order
    \* ---- SessionManager.start / stop and the update-loop threads ----
    update_threads,     \* per thread created: "check" | "body" | "exited"
    update_thread,      \* _update_thread: the number of a thread, 0 for None
    join_at             \* stop() inside join(): "waiting", else "none"

vars == << update_rate, context, control_commands, audio_features, is_active,
           pc, agent_idx, seen, pushed, ticks, steady, run_tempo, midi_out,
           running, active_notes, note_off_queue, now, sent, raised, drum_patterns,
           bass_patterns, generated, notes_by, animation_state,
           protocol, osc_client, websocket_client, osc_sent, anim_raised,
           emitted, last_dict, suite_running, sm_running, stop_pc, loop_at,
           audio_running, stream, stream_log, audio_raised, audio_buffer,
           stats, analyzer,
           analysis, analyzer_raised, cmd_idx, timer_pc, timer_time,
           timer_keep, suite_buffer, buffer_lock, cb_pc, cb_block, proc_pc,
           proc_data, delivered, analyzed, update_threads, update_thread,
           join_at >>

clockVars == << update_rate, context, control_commands, audio_features,
                is_active, pc, agent_idx, seen, pushed, ticks, steady,
                run_tempo >>

midiVars == << midi_out, running, active_notes, note_off_queue, now, sent,
              raised >>

agentVars == << drum_patterns, bass_patterns, generated, notes_by >>

animVars == << animation_state, protocol, osc_client, websocket_client,
              osc_sent, anim_raised, emitted, last_dict >>

suiteVars == << suite_running, sm_running, stop_pc, loop_at >>

audioVars == << audio_running, stream, stream_log, audio_raised,
               audio_buffer, stats >>

analyzerVars == << analyzer, analysis, analyzer_raised >>

stepVars == << cmd_idx, timer_pc, timer_time, timer_keep >>

bufferVars == << suite_buffer, buffer_lock, cb_pc, cb_block, proc_pc,
                proc_data, delivered, analyzed >>

sessionVars == << update_threads, update_thread, join_at >>

moreVars == << bufferVars, sessionVars >>

restVars == << suiteVars, audioVars, analyzerVars, stepVars, moreVars >>

(***************************************************************************)
(* Bounds of the model.                                                    *)
(***************************************************************************)
MaxQueue == 2       \* longest control-command queue explored
MaxTicks == 3       \* number of update_cycle calls explored
MaxBatch == 2       \* most notes in one process_notes call
MaxPending == 2     \* longest note-off queue explored
MaxTime == 2        \* last clock time explored
BufferSize == 1     \* frames per audio block (buffer_size)
HopLength == 2      \* shortest frame the extractors analyse (hop_length)
MaxFrames == 3      \* tempo estimates the analyzer has kept

(***************************************************************************)
(* Input sets.                                                             *)
(***************************************************************************)
UpdateRates == {1, 2}

\* A control command: command.get("type") and its optional payload.  `has`
\* says whether the payload key is present in the dictionary.
Cmd(t, h, n, s) == [type |-> t, has |-> h, num |-> n, str |-> s]

Commands ==
    { Cmd("start", FALSE, 0, ""), Cmd("stop", FALSE, 0, ""),
      Cmd("tempo_change", TRUE, 480, ""), Cmd("key_change", TRUE, 0, "G"),
      Cmd("section_change", TRUE, 0, "chorus"),
      Cmd("section_change", FALSE, 0, "") }

\* Commands whose payload is not what its type expects: a tempo that is no
\* tempo.
PayloadCommands == { Cmd("tempo_change", TRUE, 0, "") }

(***************************************************************************)
(* MusicalContext                                                          *)
(***************************************************************************)
\* MusicalContext.__init__
MusicalContext ==
    [ tempo |-> 120, key |-> "C", chord |-> "C",
      chord_progression |-> << "C" >>, dynamics |-> 50, section |-> "verse",
      beat_position |-> 0, bar_position |-> 1,
      time_signature |-> << 4, 4 >>, is_playing |-> FALSE ]

\* Units of beat_position in one beat.
BeatUnit(rate) == 60 * rate

\* ApplyCommand with a start that also rewinds the clock to the top.
ApplyCommandStartRewinds(ctx, command) ==
    CASE command.type = "section_change" ->
            [ctx EXCEPT !.section = IF command.has THEN command.str ELSE "verse"]
      [] command.type = "tempo_change" ->
            [ctx EXCEPT !.tempo = IF command.has THEN command.num ELSE ctx.tempo]
      [] command.type = "key_change" ->
            [ctx EXCEPT !.key = IF command.has THEN command.str ELSE ctx.key]
      [] command.type = "start" ->
            [ctx EXCEPT !.is_playing = TRUE, !.beat_position = 0,
                        !.bar_position = 1]
      [] command.type = "stop" -> [ctx EXCEPT !.is_playing = FALSE]
      [] OTHER -> ctx

\* SessionManager.process_control_commands: the body of the loop.
ApplyCommand(ctx, command) ==
    CASE command.type = "section_change" ->
            [ctx EXCEPT !.section = IF command.has THEN command.str ELSE "verse"]
      [] command.type = "tempo_change" ->
            [ctx EXCEPT !.tempo = IF command.has THEN command.num ELSE ctx.tempo]
      [] command.type = "key_change" ->
            [ctx EXCEPT !.key = IF command.has THEN command.str ELSE ctx.key]
      [] command.type = "start" -> [ctx EXCEPT !.is_playing = TRUE]
      [] command.type = "stop" -> [ctx EXCEPT !.is_playing = FALSE]
      [] OTHER -> ctx

\* ProcessControlCommands taking the newest command first.
RECURSIVE ProcessControlCommandsNewestFirst(_, _)
ProcessControlCommandsNewestFirst(ctx, cmds) ==
    IF cmds = << >> THEN ctx
    ELSE ProcessControlCommandsNewestFirst(
             ApplyCommand(ctx, cmds[Len(cmds)]), SubSeq(cmds, 1, Len(cmds) - 1))

\* SessionManager.process_control_commands: the loop over the queue, in order.
RECURSIVE ProcessControlCommands(_, _)
ProcessControlCommands(ctx, cmds) ==
    IF cmds = << >> THEN ctx
    ELSE ProcessControlCommands(ApplyCommand(ctx, Head(cmds)), Tail(cmds))

\* AdvanceBeat without the is_playing test.
AdvanceBeatWhenStopped(ctx, rate) ==
    LET bp == ctx.beat_position + ctx.tempo
        beats_per_bar == ctx.time_signature[1] * BeatUnit(rate)
    IN  IF bp >= beats_per_bar
        THEN [ctx EXCEPT !.beat_position = bp - beats_per_bar,
                         !.bar_position = @ + 1]
        ELSE [ctx EXCEPT !.beat_position = bp]

\* SessionManager.update_cycle: "Update beat position".
AdvanceBeat(ctx, rate) ==
    IF ctx.is_playing
    THEN LET bp == ctx.beat_position + ctx.tempo
             beats_per_bar == ctx.time_signature[1] * BeatUnit(rate)
         IN  IF bp >= beats_per_bar
             THEN [ctx EXCEPT !.beat_position = bp - beats_per_bar,
                              !.bar_position = @ + 1]
             ELSE [ctx EXCEPT !.beat_position = bp]
    ELSE ctx

(***************************************************************************)
(* Audio-derived features (the dictionary main.py hands to the session     *)
(* manager).  A key may be absent; "tempo" may be present and None.        *)
(***************************************************************************)
Features(ht, tn, t, hd, d, hc, cs) ==
    [ has_tempo |-> ht, tempo_none |-> tn, tempo |-> t,
      has_dynamics |-> hd, dynamics |-> d,
      has_chords |-> hc, chords |-> cs ]

\* SessionManager.__init__: self.audio_features = {}
NoFeatures == Features(FALSE, FALSE, 0, FALSE, 0, FALSE, << >>)

FeatureInputs ==
    { Features(TRUE, FALSE, 60, TRUE, 80, TRUE, << "D", "G" >>),
      Features(TRUE, TRUE, 0, FALSE, 0, TRUE, << >>),
      Features(FALSE, FALSE, 0, TRUE, 50, FALSE, << >>) }

\* ContextAfterFeatures writing the default tempo for a tempo of None.
ContextAfterFeaturesNoneAsDefault(ctx, features) ==
    LET c1 == IF features.has_tempo
              THEN [ctx EXCEPT !.tempo = IF features.tempo_none THEN 120
                                         ELSE features.tempo]
              ELSE ctx
        c2 == IF features.has_dynamics
              THEN [c1 EXCEPT !.dynamics = features.dynamics] ELSE c1
        c3 == IF features.has_chords /\ features.chords # << >>
              THEN [c2 EXCEPT !.chord = features.chords[1]] ELSE c2
    IN  c3

\* SessionManager.update_audio_features: context_updates is built key by
\* key and then MusicalContext.update sets each attribute named in it
\* (hasattr holds for all three).
ContextAfterFeatures(ctx, features) ==
    LET c1 == IF features.has_tempo /\ ~features.tempo_none
              THEN [ctx EXCEPT !.tempo = features.tempo] ELSE ctx
        c2 == IF features.has_dynamics
              THEN [c1 EXCEPT !.dynamics = features.dynamics] ELSE c1
        c3 == IF features.has_chords /\ features.chords # << >>
              THEN [c2 EXCEPT !.chord = features.chords[1]] ELSE c2
    IN  c3

(***************************************************************************)
(* Bandmate agents                                                         *)
(***************************************************************************)
\* PerformanceSuite._init_components registers the enabled agents in order.
agents == << "drums", "bass" >>

\* BandmateAgent._should_generate_notes: abs(round(bp) - bp) < 0.05, the
\* distance of beat_position to the nearest whole beat.
ShouldGenerateNotes(ctx, rate) ==
    LET r == ctx.beat_position % BeatUnit(rate)
        dist == IF 2 * r <= BeatUnit(rate) THEN r ELSE BeatUnit(rate) - r
    IN  20 * dist < BeatUnit(rate)

\* PushesNotes without the context.is_playing test.
PushesNotesWhenStopped(agent, ctx, rate) ==
    is_active[agent] /\ ShouldGenerateNotes(ctx, rate)

\* BandmateAgent.on_context_update: TRUE when the agent calls its
\* on_notes_generated listeners with the batch generate_notes returned.
PushesNotes(agent, ctx, rate) ==
    is_active[agent] /\ ctx.is_playing /\ ShouldGenerateNotes(ctx, rate)

(***************************************************************************)
(* DrumsAgent and BassAgent: the pattern templates built at construction   *)
(* and generate_notes.                                                     *)
(*                                                                         *)
(* A pattern's beat positions are whole quarters of a beat in the code     *)
(* (0.0, 0.5, 3.25, ...); they are kept in the units of beat_position.     *)
(* An intensity is kept in tenths (1.0 is 10, 1.2 is 12) and int(x) of a   *)
(* non-negative x is the integer quotient.  The outcomes of the module     *)
(* `random` are the fields of a record of draws: every comparison of one   *)
(* kind made while the patterns are built takes the same outcome.          *)
(***************************************************************************)
\* keep: random.random() > t where it keeps an optional hit of a sparse
\*       pattern;  skip: where it skips an off-beat hi-hat (drums), where it
\*       picks the third for beat 4 (bass);  vary: where it adds a variation;
\* jitter: random.randint(-10, 10);  fill: random.randint(2, 4);
\* tom, degree: random.choice.
\*
\* The draws explored: each outcome of each comparison, and the extreme
\* outcomes of randint and choice, low together or high together.
Draws ==
    { [ keep |-> k, skip |-> s, vary |-> v,
        jitter |-> IF lo THEN -10 ELSE 10,
        fill |-> IF lo THEN 2 ELSE 4,
        tom |-> IF lo THEN "tom_low" ELSE "tom_high",
        degree |-> IF lo THEN 0 ELSE 6 ] : k, s, v, lo \in BOOLEAN }

\* DrumsAgent.drum_mapping
drum_mapping ==
    [ kick |-> 36, snare |-> 38, hi_hat_closed |-> 42, hi_hat_open |-> 46,
      tom_low |-> 43, tom_mid |-> 47, tom_high |-> 50, crash |-> 49,
      ride |-> 51 ]

\* q quarters of a beat, in units of beat_position.
Quarters(q, rate) == q * (BeatUnit(rate) \div 4)

\* min(127, int(base * intensity))
PatternVelocity(base, intensity) ==
    LET v == (base * intensity) \div 10 IN IF v > 127 THEN 127 ELSE v

Hit(drum, bp, velocity) ==
    [ drum |-> drum, beat_position |-> bp, velocity |-> velocity ]

\* _create_basic_rock_pattern: "for i in range(8)", from i on.
RECURSIVE HiHats(_, _, _, _, _)
HiHats(i, intensity, sparse, d, rate) ==
    IF i > 7 THEN << >>
    ELSE ( IF sparse /\ i % 2 = 1 /\ d.skip THEN << >>
           ELSE << Hit("hi_hat_closed", Quarters(2 * i, rate),
                       PatternVelocity(70 + d.jitter, intensity)) >> )
         \o HiHats(i + 1, intensity, sparse, d, rate)

\* _create_basic_rock_pattern: "for i in range(random.randint(2, 4))", from
\* i on; a hit at 3.0 + i * 0.25 is added only below beat 4.0.
RECURSIVE TomFill(_, _, _, _)
TomFill(i, intensity, d, rate) ==
    IF i >= d.fill THEN << >>
    ELSE ( IF 12 + i < 16
           THEN << Hit(d.tom, Quarters(12 + i, rate),
                       PatternVelocity(90 + d.jitter, intensity)) >>
           ELSE << >> )
         \o TomFill(i + 1, intensity, d, rate)

\* DrumsAgent._create_basic_rock_pattern
BasicRockPattern(intensity, variation, sparse, d, rate) ==
    ( IF ~sparse \/ d.keep
      THEN << Hit("kick", Quarters(0, rate), PatternVelocity(100, intensity)) >>
      ELSE << >> )
    \o ( IF ~sparse \/ d.keep
         THEN << Hit("kick", Quarters(8, rate), PatternVelocity(90, intensity)) >>
         ELSE << >> )
    \o << Hit("snare", Quarters(4, rate), PatternVelocity(100, intensity)),
          Hit("snare", Quarters(12, rate), PatternVelocity(100, intensity)) >>
    \o HiHats(0, intensity, sparse, d, rate)
    \o ( IF variation /\ d.vary
         THEN << Hit("crash", Quarters(0, rate), PatternVelocity(110, intensity)) >>
              \o TomFill(0, intensity, d, rate)
         ELSE << >> )

\* DrumsAgent.__init__: self.patterns
DrumPatterns(d, rate) ==
    [ ts \in {"4/4"} |->
        [ verse |-> BasicRockPattern(10, FALSE, FALSE, d, rate),
          chorus |-> BasicRockPattern(12, FALSE, FALSE, d, rate),
          bridge |-> BasicRockPattern(10, TRUE, FALSE, d, rate),
          intro |-> BasicRockPattern(10, FALSE, TRUE, d, rate),
          outro |-> BasicRockPattern(10, FALSE, TRUE, d, rate) ] ]

\* A note dictionary, as generate_notes returns it and process_notes reads it.
Note(p, v, d, c) == [pitch |-> p, velocity |-> v, duration |-> d, channel |-> c]

\* BassAgent.note_mapping
note_mapping ==
    [ k \in {"C", "C#", "D", "D#", "E", "F", "F#", "G", "G#", "A", "A#", "B"} |->
        CASE k = "C"  -> [root |-> 36, scale |-> <<36, 38, 40, 41, 43, 45, 47, 48>>]
          [] k = "C#" -> [root |-> 37, scale |-> <<37, 39, 41, 42, 44, 46, 48, 49>>]
          [] k = "D"  -> [root |-> 38, scale |-> <<38, 40, 42, 43, 45, 47, 49, 50>>]
          [] k = "D#" -> [root |-> 39, scale |-> <<39, 41, 43, 44, 46, 48, 50, 51>>]
          [] k = "E"  -> [root |-> 40, scale |-> <<40, 42, 44, 45, 47, 49, 51, 52>>]
          [] k = "F"  -> [root |-> 41, scale |-> <<41, 43, 45, 46, 48, 50, 52, 53>>]
          [] k = "F#" -> [root |-> 42, scale |-> <<42, 44, 46, 47, 49, 51, 53, 54>>]
          [] k = "G"  -> [root |-> 43, scale |-> <<43, 45, 47, 48, 50, 52, 54, 55>>]
          [] k = "G#" -> [root |-> 44, scale |-> <<44, 46, 48, 49, 51, 53, 55, 56>>]
          [] k = "A"  -> [root |-> 45, scale |-> <<45, 47, 49, 50, 52, 54, 56, 57>>]
          [] k = "A#" -> [root |-> 46, scale |-> <<46, 48, 50, 51, 53, 55, 57, 58>>]
          [] k = "B"  -> [root |-> 47, scale |-> <<47, 49, 51, 52, 54, 56, 58, 59>>] ]

BassNote(degree, bp, velocity) ==
    [ scale_degree |-> degree, beat_position |-> bp, duration |-> 9,
      velocity |-> velocity ]

\* _create_simple_bass_pattern: the walking line, "for i in range(4)" from
\* i on (beat 1, i = 0, is passed over).
RECURSIVE WalkingLine(_, _, _, _)
WalkingLine(i, intensity, d, rate) ==
    IF i > 3 THEN << >>
    ELSE ( IF i = 0 THEN << >>
           ELSE << BassNote(d.degree, Quarters(4 * i, rate),
                            PatternVelocity(85 + d.jitter, intensity)) >> )
         \o WalkingLine(i + 1, intensity, d, rate)

\* BassAgent._create_simple_bass_pattern
SimpleBassPattern(intensity, variation, sparse, d, rate) ==
    << BassNote(0, Quarters(0, rate), PatternVelocity(100, intensity)) >>
    \o ( IF ~sparse \/ d.keep
         THEN << BassNote(4, Quarters(4, rate), PatternVelocity(90, intensity)) >>
         ELSE << >> )
    \o ( IF ~sparse \/ d.keep
         THEN << BassNote(0, Quarters(8, rate), PatternVelocity(95, intensity)) >>
         ELSE << >> )
    \o ( IF ~sparse \/ d.keep
         THEN << BassNote(IF d.skip THEN 2 ELSE 4, Quarters(12, rate),
                          PatternVelocity(85, intensity)) >>
         ELSE << >> )
    \o ( IF variation /\ d.vary THEN WalkingLine(0, intensity, d, rate)
         ELSE << >> )

\* BassAgent.__init__: self.patterns
BassPatterns(d, rate) ==
    [ verse |-> SimpleBassPattern(10, FALSE, FALSE, d, rate),
      chorus |-> SimpleBassPattern(12, FALSE, FALSE, d, rate),
      bridge |-> SimpleBassPattern(10, TRUE, FALSE, d, rate),
      intro |-> SimpleBassPattern(10, FALSE, TRUE, d, rate),
      outro |-> SimpleBassPattern(10, FALSE, TRUE, d, rate) ]

\* abs(hit["beat_position"] - current_beat) < 0.05
OnCurrentBeat(bp, current_beat, rate) ==
    LET dist == IF bp >= current_beat THEN bp - current_beat
                ELSE current_beat - bp
    IN  20 * dist < BeatUnit(rate)

\* int(velocity * 0.7).  The product is a binary float: 90 * 0.7 is
\* 62.99999999999999, so int() gives 62; for every other velocity in 0..127
\* the float result is the exact quotient.
Attenuate(velocity) ==
    IF velocity = 90 THEN 62 ELSE (7 * velocity) \div 10

\* Boost without the cap at 127.
BoostUncapped(velocity) == (12 * velocity) \div 10

\* min(127, int(velocity * 1.2))
Boost(velocity) ==
    LET v == (12 * velocity) \div 10 IN IF v > 127 THEN 127 ELSE v

\* AdjustVelocity with the two factors exchanged.
AdjustVelocityExchanged(velocity, dynamics) ==
    IF dynamics < 30 THEN Boost(velocity)
    ELSE IF dynamics > 70 THEN Attenuate(velocity)
    ELSE velocity

\* generate_notes: "Adjust notes based on dynamics", for one note.
AdjustVelocity(velocity, dynamics) ==
    IF dynamics < 30 THEN Attenuate(velocity)
    ELSE IF dynamics > 70 THEN Boost(velocity)
    ELSE velocity

\* f"{time_signature[0]}/{time_signature[1]}"
TimeSigStr(ts) == ToString(ts[1]) \o "/" \o ToString(ts[2])

\* DrumsGenerateNotes returning nothing for a section it has no pattern for.
DrumsGenerateNotesNoFallback(patterns, ctx, rate) ==
    LET ts == IF TimeSigStr(ctx.time_signature) \in DOMAIN patterns
              THEN TimeSigStr(ctx.time_signature) ELSE "4/4"
        pattern == IF ctx.section \in DOMAIN patterns[ts]
                   THEN patterns[ts][ctx.section] ELSE << >>
        hits == SelectSeq(pattern,
                    LAMBDA h : /\ OnCurrentBeat(h.beat_position,
                                                ctx.beat_position, rate)
                               /\ h.drum \in DOMAIN drum_mapping)
    IN  [ i \in 1..Len(hits) |->
            Note(drum_mapping[hits[i].drum],
                 AdjustVelocity(hits[i].velocity, ctx.dynamics), 1, 9) ]

\* DrumsAgent.generate_notes (a note's duration is in tenths of a second)
DrumsGenerateNotes(patterns, ctx, rate) ==
    LET ts == IF TimeSigStr(ctx.time_signature) \in DOMAIN patterns
              THEN TimeSigStr(ctx.time_signature) ELSE "4/4"
        section == IF ctx.section \in DOMAIN patterns[ts]
                   THEN ctx.section ELSE "verse"
        pattern == patterns[ts][section]
        hits == SelectSeq(pattern,
                    LAMBDA h : /\ OnCurrentBeat(h.beat_position,
                                                ctx.beat_position, rate)
                               /\ h.drum \in DOMAIN drum_mapping)
    IN  [ i \in 1..Len(hits) |->
            Note(drum_mapping[hits[i].drum],
                 AdjustVelocity(hits[i].velocity, ctx.dynamics), 1, 9) ]

\* chord[0], the first character of a chord label ("" for the empty label)
FirstCharacter(chord) ==
    CASE chord = "" -> ""
      [] chord = "Bm" -> "B"
      [] chord = "C#" -> "C"
      [] OTHER -> chord

\* BassGenerateNotes taking the chorus pattern for a section it has no
\* pattern for.
BassGenerateNotesChorusFallback(patterns, ctx, rate) ==
    LET section == IF ctx.section \in DOMAIN patterns
                   THEN ctx.section ELSE "chorus"
        key == IF ctx.key \in DOMAIN note_mapping THEN ctx.key ELSE "C"
        chord_root == FirstCharacter(ctx.chord)
        root_offset == IF ctx.chord # "" /\ chord_root \in DOMAIN note_mapping
                       THEN note_mapping[chord_root].root - note_mapping[key].root
                       ELSE 0
        found == SelectSeq(patterns[section],
                     LAMBDA n : /\ OnCurrentBeat(n.beat_position,
                                                 ctx.beat_position, rate)
                                /\ 0 <= n.scale_degree
                                /\ n.scale_degree < Len(note_mapping[key].scale))
    IN  [ i \in 1..Len(found) |->
            Note(note_mapping[key].scale[found[i].scale_degree + 1] + root_offset,
                 AdjustVelocity(found[i].velocity, ctx.dynamics),
                 found[i].duration, 0) ]

\* BassAgent.generate_notes
BassGenerateNotes(patterns, ctx, rate) ==
    LET section == IF ctx.section \in DOMAIN patterns
                   THEN ctx.section ELSE "verse"
        key == IF ctx.key \in DOMAIN note_mapping THEN ctx.key ELSE "C"
        chord_root == FirstCharacter(ctx.chord)
        root_offset == IF ctx.chord # "" /\ chord_root \in DOMAIN note_mapping
                       THEN note_mapping[chord_root].root - note_mapping[key].root
                       ELSE 0
        found == SelectSeq(patterns[section],
                     LAMBDA n : /\ OnCurrentBeat(n.beat_position,
                                                 ctx.beat_position, rate)
                                /\ 0 <= n.scale_degree
                                /\ n.scale_degree < Len(note_mapping[key].scale))
    IN  [ i \in 1..Len(found) |->
            Note(note_mapping[key].scale[found[i].scale_degree + 1] + root_offset,
                 AdjustVelocity(found[i].velocity, ctx.dynamics),
                 found[i].duration, 0) ]

\* DrumsAgent.__init__ and BassAgent.__init__ with the draws d
AgentsStart(d) ==
    /\ drum_patterns = DrumPatterns(d, update_rate)
    /\ bass_patterns = BassPatterns(d, update_rate)
    /\ generated = << >>
    /\ notes_by = "none"

\* The agents where generate_notes is not called: their pattern templates
\* are read by generate_notes alone and are left out of the state.
AgentsAside ==
    /\ drum_patterns = << >>
    /\ bass_patterns = << >>
    /\ generated = << >>
    /\ notes_by = "none"

(***************************************************************************)
(* AnimationController (src/src/animation_control/animation_controller.py) *)
(*                                                                         *)
(* osc_client and websocket_client are TRUE while the client object       *)
(* exists; `client` below is what send_command tests before it sends.  A   *)
(* send through an existing client succeeds (a failing one is caught and   *)
(* printed by send_command).  The state an operation works on is the       *)
(* record [state, out, err]: animation_state, the messages sent so far by  *)
(* the operation and the exception that escapes it ("none" if none).  A    *)
(* ratio of two integers is kept as the pair << numerator, denominator >>. *)
(***************************************************************************)
OscMsg(address, data) == [address |-> address, data |-> data]

\* AnimationController.__init__: self.animation_state ("agents" is the
\* dictionary in insertion order, one entry per agent type)
AnimationState ==
    [tempo |-> 120, intensity |-> 50, section |-> "verse", agents |-> << >>]

\* The two tests of send_command: the configured protocol's client exists.
Client ==
    \/ protocol = "osc" /\ osc_client
    \/ protocol = "websocket" /\ websocket_client

\* send_command sending whether or not a client exists.
SendCommandUnguarded(st, client, address, data) ==
    [st EXCEPT !.out = Append(@, OscMsg(address, data))]

\* AnimationController.send_command
SendCommand(st, client, address, data) ==
    IF client THEN [st EXCEPT !.out = Append(@, OscMsg(address, data))]
    ELSE st

\* AnimationController.update_tempo
UpdateTempo(st, client, tempo) ==
    SendCommand([st EXCEPT !.state.tempo = tempo], client, "/tempo", tempo)

\* AnimationController.update_intensity
UpdateIntensity(st, client, intensity) ==
    SendCommand([st EXCEPT !.state.intensity = intensity], client,
                "/intensity", intensity)

\* AnimationController.update_section
UpdateSection(st, client, section) ==
    SendCommand([st EXCEPT !.state.section = section], client,
                "/section", section)

\* abs(beat_position - 0.0) < 0.05 or abs(beat_position - 2.0) < 0.05
OnStrongBeat(beat_position, rate) ==
    LET d0 == IF beat_position >= 0 THEN beat_position ELSE -beat_position
        d2 == IF beat_position >= 2 * BeatUnit(rate)
              THEN beat_position - 2 * BeatUnit(rate)
              ELSE 2 * BeatUnit(rate) - beat_position
    IN  20 * d0 < BeatUnit(rate) \/ 20 * d2 < BeatUnit(rate)

\* AnimationController.update_beat_position
UpdateBeatPosition(st, client, beat_position, bar_position, rate) ==
    LET data == [beat |-> beat_position, bar |-> bar_position]
        s1 == SendCommand(st, client, "/beat", data)
    IN  IF OnStrongBeat(beat_position, rate)
        THEN SendCommand(s1, client, "/beat/strong", data)
        ELSE s1

\* UpdateFromMusicalContext sending the tempo on every call.
UpdateFromMusicalContextTempoAlways(st, client, context_dict, rate) ==
    LET s1 == UpdateTempo(st, client, context_dict.tempo)
        s2 == IF context_dict.section # s1.state.section
              THEN UpdateSection(s1, client, context_dict.section) ELSE s1
        s3 == UpdateBeatPosition(s2, client, context_dict.beat_position,
                                 context_dict.bar_position, rate)
    IN  UpdateIntensity(s3, client, context_dict.dynamics)

\* AnimationController.update_from_musical_context, for a dictionary that
\* holds every key (as MusicalContext.to_dict builds it)
UpdateFromMusicalContext(st, client, context_dict, rate) ==
    LET s1 == IF context_dict.tempo # st.state.tempo
              THEN UpdateTempo(st, client, context_dict.tempo) ELSE st
        s2 == IF context_dict.section # s1.state.section
              THEN UpdateSection(s1, client, context_dict.section) ELSE s1
        s3 == UpdateBeatPosition(s2, client, context_dict.beat_position,
                                 context_dict.bar_position, rate)
    IN  UpdateIntensity(s3, client, context_dict.dynamics)

\* the mapping of MIDI note numbers to drum types in agent_note_event
DrumType(pitch) ==
    CASE pitch = 36 -> "kick"
      [] pitch = 38 -> "snare"
      [] pitch \in {42, 44, 46} -> "hihat"
      [] pitch \in {49, 51, 52, 53, 55, 57, 59} -> "cymbal"
      [] pitch \in {41, 43, 45, 47, 48, 50} -> "tom"
      [] OTHER -> "other"

\* sum(note.get("velocity", 64) for note in notes)
RECURSIVE SumVelocity(_)
SumVelocity(notes) ==
    IF notes = << >> THEN 0
    ELSE Head(notes).velocity + SumVelocity(Tail(notes))

\* agent_note_event: the loop that sends one hit per drum note
RECURSIVE DrumHits(_, _, _)
DrumHits(st, client, notes) ==
    IF notes = << >> THEN st
    ELSE DrumHits(SendCommand(st, client, "/agent/drums/hit",
                              [ type |-> DrumType(Head(notes).pitch),
                                intensity |-> << Head(notes).velocity, 127 >> ]),
                  client, Tail(notes))

\* AnimationController.agent_note_event
AgentNoteEvent(st, client, agent_type, notes, time) ==
    IF notes = << >> THEN st
    ELSE
        LET normalized_velocity == << SumVelocity(notes), Len(notes) * 127 >>
            ags == st.state.agents
            I == { i \in 1..Len(ags) : ags[i].agent_type = agent_type }
            s1 == IF I = {}
                  THEN [st EXCEPT !.state.agents =
                            Append(@, [ agent_type |-> agent_type,
                                        active |-> TRUE,
                                        intensity |-> normalized_velocity,
                                        last_note_time |-> time ])]
                  ELSE [st EXCEPT !.state.agents =
                            [ i \in 1..Len(ags) |->
                                IF i \in I
                                THEN [ags[i] EXCEPT
                                        !.intensity = normalized_velocity,
                                        !.last_note_time = time]
                                ELSE ags[i] ]]
            s2 == SendCommand(s1, client, "/agent/" \o agent_type \o "/note",
                              [ intensity |-> normalized_velocity,
                                count |-> Len(notes) ])
        IN  IF agent_type = "drums" THEN DrumHits(s2, client, notes) ELSE s2

\* AnimationController.__init__ and _init_client: the client of a supported
\* protocol exists when it could be created
AnimConstruct(proto, created) ==
    /\ animation_state = AnimationState
    /\ protocol = proto
    /\ osc_client = (proto = "osc" /\ created)
    /\ websocket_client = (proto = "websocket" /\ created)
    /\ osc_sent = << >>
    /\ anim_raised = "none"
    /\ emitted = [tempo |-> << >>, section |-> << >>, intensity |-> << >>]
    /\ last_dict = << >>

\* AnimationController("osc") with a client that could be created (the
\* default, and what main.py configures)
AnimStart == AnimConstruct("osc", TRUE)

(***************************************************************************)
(* AudioInputHandler (src/src/audio_analysis/input_handler.py)             *)
(*                                                                         *)
(* stream is "none" while self.stream is None, "created" for an            *)
(* InputStream that was built but not started and "started" for one that   *)
(* runs.  Building the stream or starting it may fail; stopping and        *)
(* closing an existing stream succeed.  A handler operation works on the   *)
(* record [running, stream, log, err]; log lists the calls made on         *)
(* sounddevice.  Samples are mono, in hundredths of full scale; the RMS    *)
(* level sqrt(q / n) is kept as the pair << q, n >>.                       *)
(***************************************************************************)
StartOutcomes == {"ok", "InputStream fails", "start fails"}

Levels == {0, 100}

\* AudioInputHandler.start opening a stream even when one is running
AudioInputStartAgain(h, outcome) ==
    CASE outcome = "ok" ->
           [h EXCEPT !.stream = "started", !.running = TRUE,
                     !.log = << "InputStream", "start" >>]
      [] outcome = "InputStream fails" ->
           [h EXCEPT !.running = FALSE, !.log = << "InputStream" >>]
      [] OTHER ->
           [h EXCEPT !.stream = "created", !.running = FALSE,
                     !.log = << "InputStream", "start" >>]

\* AudioInputHandler.start
AudioInputStart(h, outcome) ==
    IF h.running THEN h
    ELSE CASE outcome = "ok" ->
                [h EXCEPT !.stream = "started", !.running = TRUE,
                          !.log = << "InputStream", "start" >>]
           [] outcome = "InputStream fails" ->
                [h EXCEPT !.running = FALSE, !.log = << "InputStream" >>]
           [] OTHER ->
                [h EXCEPT !.stream = "created", !.running = FALSE,
                          !.log = << "InputStream", "start" >>]

\* AudioInputHandler.stop
AudioInputStop(h) ==
    IF ~h.running THEN h
    ELSE IF h.stream # "none"
         THEN [h EXCEPT !.stream = "none", !.running = FALSE,
                        !.log = << "stop", "close" >>]
         ELSE [h EXCEPT !.running = FALSE]

\* np.max(np.abs(data))
RECURSIVE Peak(_)
Peak(data) ==
    IF data = << >> THEN 0
    ELSE LET m == Peak(Tail(data))
             a == IF Head(data) < 0 THEN -Head(data) ELSE Head(data)
         IN  IF a > m THEN a ELSE m

\* np.sum(np.square(data))
RECURSIVE SumSquares(_)
SumSquares(data) ==
    IF data = << >> THEN 0
    ELSE Head(data) * Head(data) + SumSquares(Tail(data))

\* collections.deque(maxlen=...).append, frame by frame
RECURSIVE DequeAppend(_, _, _)
DequeAppend(buffer, maxlen, data) ==
    IF data = << >> THEN buffer
    ELSE LET b == Append(buffer, Head(data))
         IN  DequeAppend(IF Len(b) > maxlen THEN Tail(b) ELSE b, maxlen,
                         Tail(data))

(***************************************************************************)
(* AudioAnalyzer (src/src/audio_analysis/analyzer.py)                      *)
(*                                                                         *)
(* A frame is the record [length, rms]: its number of samples and the RMS  *)
(* level, in hundredths, of the pre-emphasised samples.  What librosa      *)
(* finds in a frame long enough to analyse is an input: the record         *)
(* [tempo, tempo_confidence, pitch, pitch_confidence, chords,              *)
(* chords_confidence] (pitch 0 when piptrack found none).  Confidences and *)
(* dynamics are in percent, a quotient is the pair << numerator,           *)
(* denominator >>, and onset_env_history is the number of envelopes kept.  *)
(***************************************************************************)
Frames == { [length |-> n, rms |-> r] : n \in 1..(HopLength + 1), r \in {0, 5} }
              \cup { [length |-> 0, rms |-> 0] }

Estimates ==
    { [ tempo |-> t, tempo_confidence |-> 40, pitch |-> pi,
        pitch_confidence |-> 50, chords |-> ch, chords_confidence |-> 30 ] :
        t \in {90, 140}, pi \in {0, 440}, ch \in { << >>, << "C", "Am" >> } }

\* np.sum(values * weights)
RECURSIVE Dot(_, _)
Dot(values, weights) ==
    IF values = << >> THEN 0
    ELSE Head(values) * Head(weights) + Dot(Tail(values), Tail(weights))

\* np.linspace(0.5, 1.0, n), every weight times 2 * (n - 1) (times 2 for
\* n = 1)
Weights(n) == [ i \in 1..n |-> IF n = 1 THEN 1 ELSE (n - 1) + (i - 1) ]

\* collections.deque(maxlen=maxlen).append
Keep(history, maxlen, x) ==
    LET h == Append(history, x) IN IF Len(h) > maxlen THEN Tail(h) ELSE h

\* AudioAnalyzer._estimate_tempo; the result is [an, tempo, confidence]
EstimateTempo(an, frame, est) ==
    IF frame.length < HopLength \/ an.onset_env_history + 1 < 2
    THEN [ an |-> IF frame.length < HopLength THEN an
                  ELSE [an EXCEPT !.onset_env_history = @ + 1],
           tempo |-> << 120, 1 >>, confidence |-> 0 ]
    ELSE LET h == Keep(an.tempo_history, 10, est.tempo)
             w == Weights(Len(h))
         IN  [ an |-> [an EXCEPT !.onset_env_history =
                                     IF @ < 3 THEN @ + 1 ELSE 3,
                                 !.tempo_history = h],
               tempo |-> << Dot(h, w), Dot(w, [i \in 1..Len(w) |-> 1]) >>,
               confidence |-> est.tempo_confidence ]

\* AudioAnalyzer._extract_pitch; the result is [an, pitch, confidence, note]
ExtractPitch(an, frame, est) ==
    IF frame.length < HopLength \/ est.pitch <= 0
    THEN [ an |-> an, pitch |-> << >>, confidence |-> << 0, 1 >>,
           note |-> << >> ]
    ELSE LET h == Keep(an.pitch_history, 5, est.pitch)
             c == Keep(an.pitch_confidence_history, 5, est.pitch_confidence)
             ones == [i \in 1..Len(c) |-> 1]
             smoothed == << Dot(h, c), Dot(c, ones) >>
         IN  [ an |-> [an EXCEPT !.pitch_history = h,
                                 !.pitch_confidence_history = c],
               pitch |-> << smoothed >>,
               confidence |-> << Dot(c, ones), Len(c) >>,
               note |-> << smoothed >> ]

\* AudioAnalyzer._apply_pre_emphasis: audio_frame[0] of an empty frame
\* raises IndexError
ApplyPreEmphasis(frame) == IF frame.length = 0 THEN "IndexError" ELSE "none"

\* AudioAnalyzer.analyze_frame; the result is [an, out, err], out the
\* features returned (none when the call raised)
AnalyzeFrame(an, frame, est) ==
    IF ApplyPreEmphasis(frame) # "none"
    THEN [ an |-> an, out |-> << >>, err |-> ApplyPreEmphasis(frame) ]
    ELSE LET short == frame.length < HopLength
             pitch_data == ExtractPitch(an, frame, est)
             tempo_data == EstimateTempo(pitch_data.an, frame, est)
             chords == IF short THEN << >> ELSE est.chords
             value == IF frame.rms * 10 > 100 THEN 100 ELSE frame.rms * 10
             f == [ tempo |-> [ value |-> tempo_data.tempo,
                                confidence |-> tempo_data.confidence ],
                    pitch |-> [ value |-> pitch_data.pitch,
                                confidence |-> pitch_data.confidence,
                                note |-> pitch_data.note ],
                    chords |-> [ value |-> chords,
                                 confidence |-> IF short THEN 0
                                                ELSE est.chords_confidence ],
                    dynamics |-> [ value |-> value, rms |-> frame.rms ],
                    timbre |-> IF short THEN "zeros" ELSE "computed" ]
         IN  [ an |-> [ tempo_data.an EXCEPT
                          !.current_tempo = << f.tempo.value >>,
                          !.current_chords = IF chords # << >> THEN chords
                                             ELSE @,
                          !.current_dynamics = value ],
               out |-> << f >>, err |-> "none" ]

(***************************************************************************)
(* The state of the components a specification leaves aside.               *)
(***************************************************************************)
\* PerformanceSuite.__init__: nothing started
SuiteAside ==
    /\ suite_running = FALSE
    /\ sm_running = FALSE
    /\ stop_pc = "idle"
    /\ loop_at = [t \in {"tick", "timer", "audio", "monitor"} |-> "none"]

\* AudioInputHandler.__init__: the deque is filled with zeros
AudioStart ==
    /\ audio_running = FALSE
    /\ stream = "none"
    /\ stream_log = << >>
    /\ audio_raised = "none"
    /\ audio_buffer = [i \in 1..(4 * BufferSize) |-> 0]
    /\ stats = [peak_level |-> 0, rms_level |-> << 0, 1 >>,
                clipping |-> FALSE, dropout |-> FALSE]

\* AudioAnalyzer.__init__
AnalyzerStart ==
    /\ analyzer = [ current_tempo |-> << >>, current_chords |-> << >>,
                    current_dynamics |-> 0, onset_env_history |-> 0,
                    tempo_history |-> << >>, pitch_history |-> << >>,
                    pitch_confidence_history |-> << >> ]
    /\ analysis = << >>
    /\ analyzer_raised = "none"

\* no thread inside process_control_commands or the timer loop's body
StepsAside ==
    /\ cmd_idx = 0
    /\ timer_pc = "idle"
    /\ timer_time = 0
    /\ timer_keep = << >>

\* PerformanceSuite.__init__: the buffer is empty, the lock is free
BufferStart ==
    /\ suite_buffer = << >>
    /\ buffer_lock = "none"
    /\ cb_pc = "idle"
    /\ cb_block = << >>
    /\ proc_pc = "idle"
    /\ proc_data = << >>
    /\ delivered = << >>
    /\ analyzed = << >>

\* SessionManager.__init__: no update thread
SessionStart ==
    /\ update_threads = << >>
    /\ update_thread = 0
    /\ join_at = "none"

MoreAside == BufferStart /\ SessionStart

RestAside == SuiteAside /\ AudioStart /\ AnalyzerStart /\ StepsAside /\ MoreAside

(***************************************************************************)
(* SessionManager operations, each as one atomic call.                     *)
(***************************************************************************)
\* SessionManager.add_control_command
AddControlCommand ==
    \E command \in Commands :
        /\ Len(control_commands) < MaxQueue
        /\ control_commands' = Append(control_commands, command)
        /\ UNCHANGED << update_rate, context, audio_features, is_active, pc,
                        agent_idx, seen, pushed, ticks, steady, run_tempo >>
        /\ UNCHANGED << midiVars, agentVars, animVars, restVars >>

\* SessionManager.add_control_command, handed a command of PayloadCommands
AddPayloadCommand ==
    \E command \in PayloadCommands :
        /\ Len(control_commands) < MaxQueue
        /\ control_commands' = Append(control_commands, command)
        /\ UNCHANGED << update_rate, context, audio_features, is_active, pc,
                        agent_idx, seen, pushed, ticks, steady, run_tempo >>
        /\ UNCHANGED << midiVars, agentVars, animVars, restVars >>

\* SessionManager.update_audio_features
UpdateAudioFeatures ==
    \E features \in FeatureInputs :
        /\ audio_features' = features
        /\ context' = ContextAfterFeatures(context, features)
        /\ UNCHANGED << update_rate, control_commands, is_active, pc,
                        agent_idx, seen, pushed, ticks, steady, run_tempo >>
        /\ UNCHANGED << midiVars, agentVars, animVars, restVars >>

\* The record of a run of ticks that all advanced the beat at one tempo:
\* c is the context after the commands of this tick.
SteadyAfter(c) == steady /\ c.is_playing /\ (ticks = 0 \/ run_tempo = c.tempo)

\* SessionManager.update_cycle, the whole call: commands, beat advance,
\* agents in registration order, context listeners.
UpdateCycle ==
    /\ pc = "idle"
    /\ ticks < MaxTicks
    /\ LET c1 == ProcessControlCommands(context, control_commands)
           c2 == AdvanceBeat(c1, update_rate)
       IN  /\ context' = c2
           /\ control_commands' = << >>
           /\ pushed' = SelectSeq(agents,
                            LAMBDA a : PushesNotes(a, c2, update_rate))
           /\ ticks' = ticks + 1
           /\ steady' = SteadyAfter(c1)
           /\ run_tempo' = IF SteadyAfter(c1) THEN c1.tempo ELSE 0
    /\ UNCHANGED << update_rate, audio_features, is_active, pc, agent_idx,
                    seen >>
    /\ UNCHANGED << midiVars, agentVars, animVars, restVars >>

\* SessionManager.__init__ (and the agents main.py registers)
ClockStart ==
    /\ context = MusicalContext
    /\ control_commands = << >>
    /\ audio_features = NoFeatures
    /\ is_active = [a \in {"drums", "bass"} |-> TRUE]
    /\ pc = "idle"
    /\ agent_idx = 1
    /\ seen = << >>
    /\ pushed = << >>
    /\ ticks = 0
    /\ steady = TRUE
    /\ run_tempo = 0

\* MidiGenerator.__init__
MidiStart ==
    /\ running = FALSE
    /\ active_notes = << >>
    /\ note_off_queue = << >>
    /\ now = 0
    /\ sent = << >>
    /\ raised = "none"

ClockInit ==
    /\ update_rate \in UpdateRates
    /\ ClockStart
    /\ midi_out = TRUE
    /\ MidiStart
    /\ AgentsAside
    /\ AnimStart
    /\ RestAside

ClockNext == AddControlCommand \/ UpdateAudioFeatures \/ UpdateCycle

SpecClock == ClockInit /\ [][ClockNext]_vars

\* The clock with commands of any payload.
PayloadNext == ClockNext \/ AddPayloadCommand

SpecPayload == ClockInit /\ [][PayloadNext]_vars

(***************************************************************************)
(* The clock playing: update_cycle called tick after tick, from any beat   *)
(* position a run of ticks at the tempo has led to.  `pushed` is what the  *)
(* tick that led there left.                                               *)
(***************************************************************************)
BeatInit ==
    /\ update_rate \in {1, 30}
    /\ control_commands = << >>
    /\ audio_features = NoFeatures
    /\ is_active = [a \in {"drums", "bass"} |-> TRUE]
    /\ \E tempo \in {60, 120} :
         \E n \in 0..((4 * BeatUnit(update_rate)) \div tempo - 1) :
            context = [ MusicalContext EXCEPT !.is_playing = TRUE,
                                              !.tempo = tempo,
                                              !.beat_position = n * tempo ]
    /\ pushed = SelectSeq(agents,
                          LAMBDA a : PushesNotes(a, context, update_rate))
    /\ pc = "idle"
    /\ agent_idx = 1
    /\ seen = << >>
    /\ ticks = 0
    /\ steady = TRUE
    /\ run_tempo = 0
    /\ midi_out = TRUE
    /\ MidiStart
    /\ AgentsAside
    /\ AnimStart
    /\ RestAside

SpecBeat == BeatInit /\ [][UpdateCycle]_vars

(***************************************************************************)
(* SessionManager.start and stop called one after the other, and the       *)
(* update-loop threads they create.  join(timeout=1.0) returns when the    *)
(* thread has exited or when the second is over.                           *)
(***************************************************************************)
MaxThreads == 3     \* update-loop threads created

\* join() returning only when the thread has exited.
JoinReturnsOnExit(thread_pc) == thread_pc = "exited"

\* self._update_thread.join(timeout=1.0) may return
JoinReturns(thread_pc) == thread_pc \in {"check", "body", "exited"}

\* SessionManager.start
CallSessionStart ==
    /\ join_at = "none"
    /\ ~sm_running
    /\ Len(update_threads) < MaxThreads
    /\ sm_running' = TRUE
    /\ update_threads' = Append(update_threads, "check")
    /\ update_thread' = Len(update_threads) + 1
    /\ UNCHANGED << join_at, suite_running, stop_pc, loop_at >>
    /\ UNCHANGED << clockVars, midiVars, agentVars, animVars, audioVars,
                    analyzerVars, stepVars, bufferVars >>

\* SessionManager.stop: self._running = False, and join() is entered when
\* there is a thread
CallSessionStop ==
    /\ join_at = "none"
    /\ sm_running' = FALSE
    /\ join_at' = IF update_thread # 0 THEN "waiting" ELSE "none"
    /\ UNCHANGED << update_threads, update_thread, suite_running, stop_pc,
                    loop_at >>
    /\ UNCHANGED << clockVars, midiVars, agentVars, animVars, audioVars,
                    analyzerVars, stepVars, bufferVars >>

\* SessionManager.stop: join() returns, self._update_thread = None
SessionStopJoined ==
    /\ join_at = "waiting"
    /\ JoinReturns(update_threads[update_thread])
    /\ update_thread' = 0
    /\ join_at' = "none"
    /\ UNCHANGED << update_threads, sm_running, suite_running, stop_pc,
                    loop_at >>
    /\ UNCHANGED << clockVars, midiVars, agentVars, animVars, audioVars,
                    analyzerVars, stepVars, bufferVars >>

\* _update_loop of thread i: "while self._running"
UpdateLoopTest(i) ==
    /\ update_threads[i] = "check"
    /\ update_threads' = [update_threads EXCEPT
                             ![i] = IF sm_running THEN "body" ELSE "exited"]
    /\ UNCHANGED << update_thread, join_at, suiteVars >>
    /\ UNCHANGED << clockVars, midiVars, agentVars, animVars, audioVars,
                    analyzerVars, stepVars, bufferVars >>

\* _update_loop of thread i: update_cycle() and the sleep
UpdateLoopBody(i) ==
    /\ update_threads[i] = "body"
    /\ ticks < MaxTicks
    /\ update_threads' = [update_threads EXCEPT ![i] = "check"]
    /\ LET c1 == ProcessControlCommands(context, control_commands)
           c2 == AdvanceBeat(c1, update_rate)
       IN  /\ context' = c2
           /\ control_commands' = << >>
           /\ pushed' = SelectSeq(agents,
                            LAMBDA a : PushesNotes(a, c2, update_rate))
           /\ ticks' = ticks + 1
           /\ steady' = SteadyAfter(c1)
           /\ run_tempo' = IF SteadyAfter(c1) THEN c1.tempo ELSE 0
    /\ UNCHANGED << update_rate, audio_features, is_active, pc, agent_idx,
                    seen >>
    /\ UNCHANGED << update_thread, join_at, suiteVars >>
    /\ UNCHANGED << midiVars, agentVars, animVars, audioVars, analyzerVars,
                    stepVars, bufferVars >>

SessionInit ==
    /\ update_rate \in UpdateRates
    /\ ClockStart
    /\ midi_out = TRUE
    /\ MidiStart
    /\ AgentsAside
    /\ AnimStart
    /\ RestAside

SessionNext ==
    \/ CallSessionStart \/ CallSessionStop \/ SessionStopJoined
    \/ \E i \in 1..Len(update_threads) : UpdateLoopTest(i)
    \/ \E i \in 1..Len(update_threads) : UpdateLoopBody(i)

SpecSession == SessionInit /\ [][SessionNext]_vars

(***************************************************************************)
(* The threads, interleaved.  update_cycle runs on the session manager's   *)
(* update thread (_update_loop); update_audio_features is called from the  *)
(* audio-processing thread (main.py, _audio_processing_loop) and           *)
(* add_control_command from the performer's thread.  No lock guards the    *)
(* context, so the other threads run between the steps of update_cycle.    *)
(***************************************************************************)
\* What a reader of the shared context sees when it is called
\* (MusicalContext.to_dict for the listener, attribute reads for an agent).
Snapshot(ctx) == ctx

\* update_cycle: self.process_control_commands()
TickCommands ==
    /\ pc = "idle"
    /\ ticks < MaxTicks
    /\ context' = ProcessControlCommands(context, control_commands)
    /\ control_commands' = << >>
    /\ pc' = "advance"
    /\ seen' = << >>
    /\ pushed' = << >>
    /\ UNCHANGED << update_rate, audio_features, is_active, agent_idx, ticks,
                    steady, run_tempo >>
    /\ UNCHANGED << midiVars, agentVars, animVars, restVars >>

\* update_cycle: "Update beat position"
TickAdvance ==
    /\ pc = "advance"
    /\ context' = AdvanceBeat(context, update_rate)
    /\ ticks' = ticks + 1
    /\ steady' = SteadyAfter(context)
    /\ run_tempo' = IF SteadyAfter(context) THEN context.tempo ELSE 0
    /\ pc' = "agents"
    /\ agent_idx' = 1
    /\ UNCHANGED << update_rate, control_commands, audio_features, is_active,
                    seen, pushed >>
    /\ UNCHANGED << midiVars, agentVars, animVars, restVars >>

\* TickAgent leaving the loop after the first agent.
TickAgentOnce ==
    /\ pc = "agents"
    /\ seen' = Append(seen, Snapshot(context))
    /\ pushed' = IF PushesNotes(agents[agent_idx], context, update_rate)
                 THEN Append(pushed, agents[agent_idx]) ELSE pushed
    /\ agent_idx' = 1 /\ pc' = "listeners"
    /\ UNCHANGED << update_rate, context, control_commands, audio_features,
                    is_active, ticks, steady, run_tempo >>
    /\ UNCHANGED << midiVars, agentVars, animVars, restVars >>

\* update_cycle: one iteration of "for agent in self.agents"
TickAgent ==
    /\ pc = "agents"
    /\ seen' = Append(seen, Snapshot(context))
    /\ pushed' = IF PushesNotes(agents[agent_idx], context, update_rate)
                 THEN Append(pushed, agents[agent_idx]) ELSE pushed
    /\ IF agent_idx < Len(agents)
       THEN agent_idx' = agent_idx + 1 /\ pc' = pc
       ELSE agent_idx' = 1 /\ pc' = "listeners"
    /\ UNCHANGED << update_rate, context, control_commands, audio_features,
                    is_active, ticks, steady, run_tempo >>
    /\ UNCHANGED << midiVars, agentVars, animVars, restVars >>

\* update_cycle: "for callback in self.on_context_updated" (main.py
\* registers one listener, the animation controller)
TickListeners ==
    /\ pc = "listeners"
    /\ seen' = << >>
    /\ pc' = "idle"
    /\ UNCHANGED << update_rate, context, control_commands, audio_features,
                    is_active, agent_idx, pushed, ticks, steady, run_tempo >>
    /\ UNCHANGED << midiVars, agentVars, animVars, restVars >>

\* process_control_commands: "if not self.control_commands: return", else
\* the for loop gets its iterator
TickCommandsBegin ==
    /\ pc = "idle"
    /\ ticks < MaxTicks
    /\ pc' = IF control_commands = << >> THEN "advance" ELSE "commands"
    /\ cmd_idx' = 0
    /\ seen' = << >>
    /\ pushed' = << >>
    /\ UNCHANGED << update_rate, context, control_commands, audio_features,
                    is_active, agent_idx, ticks, steady, run_tempo >>
    /\ UNCHANGED << midiVars, agentVars, animVars, suiteVars, audioVars,
                    analyzerVars, timer_pc, timer_time, timer_keep,
                    moreVars >>

\* process_control_commands: one step of "for command in
\* self.control_commands" (the iterator reads the list as it is now, so it
\* also yields what was appended since the loop began)
TickCommandsStep ==
    /\ pc = "commands"
    /\ IF cmd_idx < Len(control_commands)
       THEN /\ context' = ApplyCommand(context, control_commands[cmd_idx + 1])
            /\ cmd_idx' = cmd_idx + 1
            /\ pc' = pc
       ELSE /\ pc' = "clear"
            /\ UNCHANGED << context, cmd_idx >>
    /\ UNCHANGED << update_rate, control_commands, audio_features, is_active,
                    agent_idx, seen, pushed, ticks, steady, run_tempo >>
    /\ UNCHANGED << midiVars, agentVars, animVars, suiteVars, audioVars,
                    analyzerVars, timer_pc, timer_time, timer_keep,
                    moreVars >>

\* process_control_commands: self.control_commands = []
TickCommandsClear ==
    /\ pc = "clear"
    /\ control_commands' = << >>
    /\ pc' = "advance"
    /\ UNCHANGED << update_rate, context, audio_features, is_active, agent_idx,
                    seen, pushed, ticks, steady, run_tempo >>
    /\ UNCHANGED << midiVars, agentVars, animVars, restVars >>

\* update_cycle step by step, with the performer's thread adding commands
CommandsNext ==
    \/ TickCommandsBegin \/ TickCommandsStep \/ TickCommandsClear
    \/ TickAdvance \/ TickAgent \/ TickListeners
    \/ AddControlCommand

SpecCommands == ClockInit /\ [][CommandsNext]_vars

ThreadsNext ==
    \/ TickCommands \/ TickAdvance \/ TickAgent \/ TickListeners
    \/ UpdateAudioFeatures
    \/ AddControlCommand

SpecThreads == ClockInit /\ [][ThreadsNext]_vars

(***************************************************************************)
(* MidiGenerator                                                           *)
(*                                                                         *)
(* active_notes is a Python dict of dicts; iteration follows insertion     *)
(* order, so it is kept as a sequence of [channel, notes] entries, notes   *)
(* a sequence of [note, velocity] entries.  The state an operation works   *)
(* on is the record [active, out, err]: active_notes, the messages sent so *)
(* far by the operation, and the exception that escaped it.                *)
(***************************************************************************)
NoteInputs ==
    { Note(60, 100, 1, 0), Note(60, 90, 2, 0), Note(62, 80, 1, 0),
      Note(36, 110, 1, 9) }

Msg(t, n, v, c) == [type |-> t, note |-> n, velocity |-> v, channel |-> c]

\* Index of `channel` in the dict, 0 when it is no key.
ChannelIndex(active, channel) ==
    IF \E i \in 1..Len(active) : active[i].channel = channel
    THEN CHOOSE i \in 1..Len(active) : active[i].channel = channel
    ELSE 0

\* Index of `note` in one channel's dict, 0 when it is no key.
NoteIndex(notes, note) ==
    IF \E i \in 1..Len(notes) : notes[i].note = note
    THEN CHOOSE i \in 1..Len(notes) : notes[i].note = note
    ELSE 0

\* `seq` without its i-th element.
RemoveAt(seq, i) == [j \in 1..(Len(seq) - 1) |-> IF j < i THEN seq[j] ELSE seq[j + 1]]

\* d[note] = velocity on one channel's dict: a new key goes last, an
\* existing key keeps its place.
SetNote(notes, note, velocity) ==
    IF NoteIndex(notes, note) = 0
    THEN Append(notes, [note |-> note, velocity |-> velocity])
    ELSE [notes EXCEPT ![NoteIndex(notes, note)].velocity = velocity]

\* SendNoteOn without the test of the port.
SendNoteOnWithoutPort(st, open, note, velocity, channel) ==
    LET a1 == IF ChannelIndex(st.active, channel) = 0
              THEN Append(st.active, [channel |-> channel, notes |-> << >>])
              ELSE st.active
        i == ChannelIndex(a1, channel)
    IN  [st EXCEPT !.out = Append(@, Msg("note_on", note, velocity, channel)),
                   !.active = [a1 EXCEPT ![i].notes =
                                   SetNote(@, note, velocity)]]

\* MidiGenerator.send_note_on
SendNoteOn(st, open, note, velocity, channel) ==
    IF ~open THEN st
    ELSE LET a1 == IF ChannelIndex(st.active, channel) = 0
                   THEN Append(st.active, [channel |-> channel, notes |-> << >>])
                   ELSE st.active
             i == ChannelIndex(a1, channel)
         IN  [st EXCEPT !.out = Append(@, Msg("note_on", note, velocity, channel)),
                        !.active = [a1 EXCEPT ![i].notes =
                                        SetNote(@, note, velocity)]]

\* MidiGenerator.send_note_off
SendNoteOff(st, open, note, channel) ==
    IF ~open THEN st
    ELSE LET i == ChannelIndex(st.active, channel)
             k == IF i = 0 THEN 0 ELSE NoteIndex(st.active[i].notes, note)
         IN  [st EXCEPT !.out = Append(@, Msg("note_off", note, 0, channel)),
                        !.active = IF k = 0 THEN @
                                   ELSE [@ EXCEPT ![i].notes = RemoveAt(@, k)]]

\* MidiGenerator.send_control_change
SendControlChange(st, open, control, value, channel) ==
    IF ~open THEN st
    ELSE [st EXCEPT !.out = Append(@, Msg("control_change", control, value,
                                          channel))]

\* MidiGenerator.send_program_change
SendProgramChange(st, open, program, channel) ==
    IF ~open THEN st
    ELSE [st EXCEPT !.out = Append(@, Msg("program_change", program, 0,
                                          channel))]

\* MidiGenerator.schedule_note_off
ScheduleNoteOff(queue, time, note, channel, delay) ==
    Append(queue, [time |-> time + delay, note |-> note, channel |-> channel])

\* MidiGenerator.process_notes: the loop over the batch.  The result is
\* [st, queue].
RECURSIVE ProcessNotesLoop(_, _, _, _, _)
ProcessNotesLoop(st, queue, open, time, notes) ==
    IF notes = << >> THEN [st |-> st, queue |-> queue]
    ELSE LET n == Head(notes)
         IN  ProcessNotesLoop(
                 SendNoteOn(st, open, n.pitch, n.velocity, n.channel),
                 ScheduleNoteOff(queue, time, n.pitch, n.channel, n.duration),
                 open, time, Tail(notes))

\* SendDue sending the first due entry only.
SendDueFirstOnly(st, open, due) ==
    IF due = << >> THEN st
    ELSE SendNoteOff(st, open, Head(due).note, Head(due).channel)

\* MidiGenerator._note_off_loop: send_note_off for each due entry, in queue
\* order.
RECURSIVE SendDue(_, _, _)
SendDue(st, open, due) ==
    IF due = << >> THEN st
    ELSE SendDue(SendNoteOff(st, open, Head(due).note, Head(due).channel),
                 open, Tail(due))

\* MidiGenerator.all_notes_off: the two nested loops.  send_note_off
\* deletes the key from the very dict the inner loop iterates, so the
\* iterator's next step raises RuntimeError ("dictionary changed size
\* during iteration"); a channel whose dict is empty is passed over.
RECURSIVE AllNotesOffLoop(_, _, _)
AllNotesOffLoop(st, open, i) ==
    IF i > Len(st.active) THEN [st EXCEPT !.active = << >>]
    ELSE IF st.active[i].notes = << >> THEN AllNotesOffLoop(st, open, i + 1)
    ELSE [SendNoteOff(st, open, st.active[i].notes[1].note, st.active[i].channel)
            EXCEPT !.err = "RuntimeError"]

\* The state an operation starts from.
Entry == [active |-> active_notes, out |-> << >>, err |-> "none"]

\* An operation's effect on the generator's variables.
Leave(st) ==
    /\ active_notes' = st.active
    /\ sent' = st.out
    /\ raised' = st.err

(***************************************************************************)
(* MidiGenerator operations, each as one atomic call.                      *)
(***************************************************************************)
Batches == UNION { [1..n -> NoteInputs] : n \in 0..MaxBatch }

\* MidiGenerator.send_note_on, called directly
CallSendNoteOn ==
    \E n \in NoteInputs :
        /\ Leave(SendNoteOn(Entry, midi_out, n.pitch, n.velocity, n.channel))
        /\ UNCHANGED << midi_out, running, note_off_queue, now >>
        /\ UNCHANGED << clockVars, agentVars, animVars, restVars >>

\* MidiGenerator.send_note_off, called directly
CallSendNoteOff ==
    \E n \in NoteInputs :
        /\ Leave(SendNoteOff(Entry, midi_out, n.pitch, n.channel))
        /\ UNCHANGED << midi_out, running, note_off_queue, now >>
        /\ UNCHANGED << clockVars, agentVars, animVars, restVars >>

\* MidiGenerator.process_notes
CallProcessNotes ==
    \E notes \in Batches :
        /\ Len(note_off_queue) + Len(notes) <= MaxPending
        /\ LET r == ProcessNotesLoop(Entry, note_off_queue, midi_out, now, notes)
           IN  /\ Leave(r.st)
               /\ note_off_queue' = r.queue
        /\ UNCHANGED << midi_out, running, now >>
        /\ UNCHANGED << clockVars, agentVars, animVars, restVars >>

\* MidiGenerator._note_off_loop: one iteration of the timer loop
NoteOffPoll ==
    /\ running
    /\ LET current_time == now
           due_notes == SelectSeq(note_off_queue,
                                  LAMBDA e : e.time <= current_time)
       IN  /\ Leave(SendDue(Entry, midi_out, due_notes))
           /\ note_off_queue' = SelectSeq(note_off_queue,
                                          LAMBDA e : e.time > current_time)
    /\ UNCHANGED << midi_out, running, now >>
    /\ UNCHANGED << clockVars, agentVars, animVars, restVars >>

\* MidiGenerator.all_notes_off
CallAllNotesOff ==
    /\ Leave(IF ~midi_out THEN Entry ELSE AllNotesOffLoop(Entry, midi_out, 1))
    /\ UNCHANGED << midi_out, running, note_off_queue, now >>
    /\ UNCHANGED << clockVars, agentVars, animVars, restVars >>

\* MidiGenerator.send_control_change, called directly
CallSendControlChange ==
    \E value \in {0, 100} :
        /\ Leave(SendControlChange(Entry, midi_out, 7, value, 0))
        /\ UNCHANGED << midi_out, running, note_off_queue, now >>
        /\ UNCHANGED << clockVars, agentVars, animVars, restVars >>

\* MidiGenerator.send_program_change, called directly
CallSendProgramChange ==
    /\ Leave(SendProgramChange(Entry, midi_out, 33, 0))
    /\ UNCHANGED << midi_out, running, note_off_queue, now >>
    /\ UNCHANGED << clockVars, agentVars, animVars, restVars >>

\* MidiGenerator.start: the timer thread begins to poll
CallStart ==
    /\ ~running
    /\ running' = TRUE
    /\ Leave(Entry)
    /\ UNCHANGED << midi_out, note_off_queue, now >>
    /\ UNCHANGED << clockVars, agentVars, animVars, restVars >>

\* MidiGenerator.stop: the timer thread is told to end and joined, then
\* all_notes_off, then the port is closed (not reached when all_notes_off
\* raises).  The note-off queue is not touched.
CallStop ==
    /\ running' = FALSE
    /\ LET st == IF ~midi_out THEN Entry ELSE AllNotesOffLoop(Entry, midi_out, 1)
       IN  /\ Leave(st)
           /\ midi_out' = IF st.err = "none" THEN FALSE ELSE midi_out
    /\ UNCHANGED << note_off_queue, now >>
    /\ UNCHANGED << clockVars, agentVars, animVars, restVars >>

\* time.time() moves on
TimePasses ==
    /\ now < MaxTime
    /\ now' = now + 1
    /\ UNCHANGED << midi_out, running, active_notes, note_off_queue, sent,
                    raised >>
    /\ UNCHANGED << clockVars, agentVars, animVars, restVars >>

\* MidiGenerator.__init__: _open_port leaves midi_out None when no port
\* can be opened.
MidiInit ==
    /\ update_rate = 1
    /\ ClockStart
    /\ midi_out \in BOOLEAN
    /\ MidiStart
    /\ AgentsAside
    /\ AnimStart
    /\ RestAside

MidiNext ==
    \/ CallSendNoteOn \/ CallSendNoteOff \/ CallProcessNotes
    \/ NoteOffPoll \/ CallAllNotesOff \/ TimePasses
    \/ CallSendControlChange \/ CallSendProgramChange
    \/ CallStart \/ CallStop

SpecMidi == MidiInit /\ [][MidiNext]_vars

(***************************************************************************)
(* The timer thread step by step, with process_notes called from the tick  *)
(* thread in between.  One iteration of _note_off_loop is two steps: all   *)
(* of it up to the evaluation of the list of entries to keep, then the     *)
(* assignment of that list to _note_off_queue.                             *)
(***************************************************************************)
\* _note_off_loop: current_time, due_notes, the sends, and the list
\* comprehension of the entries to keep
TimerPoll ==
    /\ running
    /\ timer_pc = "idle"
    /\ timer_time' = now
    /\ Leave(SendDue(Entry, midi_out,
                     SelectSeq(note_off_queue, LAMBDA e : e.time <= now)))
    /\ timer_keep' = SelectSeq(note_off_queue, LAMBDA e : e.time > now)
    /\ timer_pc' = "store"
    /\ UNCHANGED << midi_out, running, note_off_queue, now >>
    /\ UNCHANGED << clockVars, agentVars, animVars, suiteVars, audioVars,
                    analyzerVars, cmd_idx, moreVars >>

\* _note_off_loop: self._note_off_queue = [...], then the sleep
TimerStore ==
    /\ timer_pc = "store"
    /\ note_off_queue' = timer_keep
    /\ timer_pc' = "idle"
    /\ timer_keep' = << >>
    /\ UNCHANGED << midi_out, running, active_notes, now, sent, raised,
                    timer_time >>
    /\ UNCHANGED << clockVars, agentVars, animVars, suiteVars, audioVars,
                    analyzerVars, cmd_idx, moreVars >>

TimerNext ==
    \/ CallStart \/ CallProcessNotes \/ TimePasses
    \/ TimerPoll \/ TimerStore

SpecTimer == MidiInit /\ [][TimerNext]_vars

\* MidiGenerator.__init__ where _open_port found no port to open (no output
\* port exists, or opening it failed): midi_out stays None for good, as
\* nothing but the constructor opens a port.
NoPortInit ==
    /\ update_rate = 1
    /\ ClockStart
    /\ midi_out = FALSE
    /\ MidiStart
    /\ AgentsAside
    /\ AnimStart
    /\ RestAside

SpecNoPort == NoPortInit /\ [][MidiNext]_vars

(***************************************************************************)
(* generate_notes called on an agent whose context is any of the contexts  *)
(* below.  The beat positions are on a beat, within the tolerance of one,  *)
(* on an off-beat hi-hat, on the tom fill, off every hit and just below    *)
(* the end of the bar (3.9667); none is at the distance 0.05 itself, where *)
(* the float comparison of the code depends on rounding.                   *)
(***************************************************************************)
AgentContexts ==
    { [ MusicalContext EXCEPT !.key = k, !.chord = ch, !.section = s,
                              !.dynamics = dy, !.beat_position = bp,
                              !.time_signature = ts ] :
        k \in {"C", "B", "H"}, ch \in {"", "Bm", "C#"},
        s \in {"intro", "verse", "chorus", "bridge", "outro", "solo"},
        dy \in {0, 50, 100}, bp \in {0, 2, 60, 100, 195, 210, 238},
        ts \in { << 4, 4 >>, << 3, 4 >> } }

\* DrumsAgent.generate_notes, called directly
CallDrumsGenerateNotes ==
    /\ generated' = DrumsGenerateNotes(drum_patterns, context, update_rate)
    /\ notes_by' = "drums"
    /\ UNCHANGED << drum_patterns, bass_patterns >>
    /\ UNCHANGED << clockVars, midiVars, animVars, restVars >>

\* BassAgent.generate_notes, called directly
CallBassGenerateNotes ==
    /\ generated' = BassGenerateNotes(bass_patterns, context, update_rate)
    /\ notes_by' = "bass"
    /\ UNCHANGED << drum_patterns, bass_patterns >>
    /\ UNCHANGED << clockVars, midiVars, animVars, restVars >>

\* BandmateAgent.on_context_update(context) on the drums or the bass agent,
\* the clock playing or not: the batch goes to the agent's listeners when
\* the agent is active, the clock plays and _should_generate_notes agrees
CallOnContextUpdate(agent, playing) ==
    LET ctx == [context EXCEPT !.is_playing = playing]
    IN  /\ IF PushesNotes(agent, ctx, update_rate)
           THEN /\ generated' =
                     IF agent = "drums"
                     THEN DrumsGenerateNotes(drum_patterns, ctx, update_rate)
                     ELSE BassGenerateNotes(bass_patterns, ctx, update_rate)
                /\ notes_by' = agent
                /\ pushed' = << agent >>
           ELSE /\ pushed' = << >>
                /\ UNCHANGED << generated, notes_by >>
        /\ UNCHANGED << drum_patterns, bass_patterns >>
        /\ UNCHANGED << update_rate, context, control_commands,
                        audio_features, is_active, pc, agent_idx, seen, ticks,
                        steady, run_tempo >>
        /\ UNCHANGED << midiVars, animVars, restVars >>

\* The agents as constructed, holding a context (on_context_update stores
\* the session manager's context object in the agent).
AgentsInit ==
    /\ update_rate = 1
    /\ context \in AgentContexts
    /\ control_commands = << >>
    /\ audio_features = NoFeatures
    /\ is_active = [a \in {"drums", "bass"} |-> TRUE]
    /\ pc = "idle"
    /\ agent_idx = 1
    /\ seen = << >>
    /\ pushed = << >>
    /\ ticks = 0
    /\ steady = TRUE
    /\ run_tempo = 0
    /\ midi_out = TRUE
    /\ MidiStart
    /\ \E d \in Draws : AgentsStart(d)
    /\ AnimStart
    /\ RestAside

AgentsNext ==
    \/ CallDrumsGenerateNotes
    \/ CallBassGenerateNotes
    \/ \E agent \in {"drums", "bass"}, playing \in BOOLEAN :
          CallOnContextUpdate(agent, playing)

SpecAgents == AgentsInit /\ [][AgentsNext]_vars

(***************************************************************************)
(* The audio input handler, its operations called in any order, and the    *)
(* driver calling audio_callback while the stream runs.                    *)
(***************************************************************************)
AudioEntry ==
    [running |-> audio_running, stream |-> stream, log |-> << >>,
     err |-> "none"]

AudioLeave(h) ==
    /\ audio_running' = h.running
    /\ stream' = h.stream
    /\ stream_log' = h.log
    /\ audio_raised' = h.err

\* AudioInputHandler.start
CallAudioStart ==
    \E outcome \in StartOutcomes :
        /\ AudioLeave(AudioInputStart(AudioEntry, outcome))
        /\ UNCHANGED << audio_buffer, stats >>
        /\ UNCHANGED << clockVars, midiVars, agentVars, animVars, suiteVars,
                        analyzerVars, stepVars, moreVars >>

\* AudioInputHandler.stop
CallAudioStop ==
    /\ AudioLeave(AudioInputStop(AudioEntry))
    /\ UNCHANGED << audio_buffer, stats >>
    /\ UNCHANGED << clockVars, midiVars, agentVars, animVars, suiteVars,
                    analyzerVars, stepVars, moreVars >>

\* AudioInputHandler.audio_callback, called by the driver with one block
\* (no callback is registered here)
AudioCallback ==
    /\ stream = "started"
    /\ \E data \in [1..BufferSize -> Levels], status \in BOOLEAN :
           /\ stats' = [ dropout |-> status,
                         peak_level |-> Peak(data),
                         rms_level |-> << SumSquares(data), Len(data) >>,
                         clipping |-> (Peak(data) >= 99) ]
           /\ audio_buffer' = DequeAppend(audio_buffer, 4 * BufferSize, data)
    /\ UNCHANGED << audio_running, stream, stream_log, audio_raised >>
    /\ UNCHANGED << clockVars, midiVars, agentVars, animVars, suiteVars,
                    analyzerVars, stepVars, moreVars >>

AudioInit ==
    /\ update_rate = 1
    /\ ClockStart
    /\ midi_out = TRUE
    /\ MidiStart
    /\ AgentsAside
    /\ AnimStart
    /\ RestAside

AudioNext == CallAudioStart \/ CallAudioStop \/ AudioCallback

SpecAudio == AudioInit /\ [][AudioNext]_vars

(***************************************************************************)
(* PerformanceSuite (src/src/main.py) after start(): the four loop threads *)
(* and the thread that calls stop().  A loop thread is at "check" (about   *)
(* to test its flag), in "body" (inside an iteration) or "exited".  A      *)
(* join(timeout=1.0) returns when its thread has exited or when the second *)
(* is over, so stop() goes on in either case.  stop() is taken in three    *)
(* steps: up to the session manager's flag; the MIDI generator's flag and  *)
(* all_notes_off; the closing of port and renderer client.                 *)
(***************************************************************************)
\* the flag each loop tests: "while self._running"
LoopFlag(t) ==
    CASE t = "tick" -> sm_running
      [] t = "timer" -> running
      [] OTHER -> suite_running

LoopCheck(t) ==
    /\ loop_at[t] = "check"
    /\ loop_at' = [loop_at EXCEPT ![t] = IF LoopFlag(t) THEN "body"
                                         ELSE "exited"]
    /\ UNCHANGED << suite_running, sm_running, stop_pc >>
    /\ UNCHANGED << clockVars, midiVars, agentVars, animVars, audioVars,
                    analyzerVars, stepVars, moreVars >>

\* One iteration: of _update_loop, as far as the MIDI generator sees it (an
\* agent hands a batch to process_notes, or none does); of _note_off_loop;
\* of _main_loop (the audio input is restarted when it is found stopped);
\* of _audio_processing_loop (nothing that is looked at here).
LoopBody(t) ==
    /\ loop_at[t] = "body"
    /\ loop_at' = [loop_at EXCEPT ![t] = "check"]
    /\ CASE t = "tick" ->
              /\ \E notes \in { << >>, << Note(60, 100, 1, 0) >> } :
                    /\ Len(note_off_queue) + Len(notes) <= MaxPending
                    /\ LET r == ProcessNotesLoop(Entry, note_off_queue,
                                                 midi_out, now, notes)
                       IN  Leave(r.st) /\ note_off_queue' = r.queue
              /\ UNCHANGED audioVars
         [] t = "timer" ->
              /\ Leave(SendDue(Entry, midi_out,
                               SelectSeq(note_off_queue,
                                         LAMBDA e : e.time <= now)))
              /\ note_off_queue' =
                    SelectSeq(note_off_queue, LAMBDA e : e.time > now)
              /\ UNCHANGED audioVars
         [] t = "monitor" ->
              /\ \E outcome \in StartOutcomes :
                    AudioLeave(AudioInputStart(AudioEntry, outcome))
              /\ UNCHANGED << audio_buffer, stats, active_notes,
                              note_off_queue, sent, raised >>
         [] OTHER ->
              UNCHANGED << audioVars, active_notes, note_off_queue, sent,
                           raised >>
    /\ UNCHANGED << midi_out, running, now >>
    /\ UNCHANGED << suite_running, sm_running, stop_pc >>
    /\ UNCHANGED << clockVars, agentVars, animVars, analyzerVars, stepVars, moreVars >>

\* PerformanceSuite.stop: self._running = False, audio_input.stop(), and
\* session_manager.stop() up to its join
SuiteStopBegin ==
    /\ stop_pc = "idle"
    /\ suite_running
    /\ suite_running' = FALSE
    /\ AudioLeave(AudioInputStop(AudioEntry))
    /\ sm_running' = FALSE
    /\ stop_pc' = "midi"
    /\ UNCHANGED << loop_at, audio_buffer, stats >>
    /\ UNCHANGED << clockVars, midiVars, agentVars, animVars, analyzerVars,
                    stepVars, moreVars >>

\* PerformanceSuite.stop: midi_generator.stop() up to all_notes_off, which
\* ends stop() when it raises
SuiteStopMidi ==
    /\ stop_pc = "midi"
    /\ running' = FALSE
    /\ LET st == IF ~midi_out THEN Entry ELSE AllNotesOffLoop(Entry, midi_out, 1)
       IN  /\ Leave(st)
           /\ stop_pc' = IF st.err = "none" THEN "close" ELSE "raised"
    /\ UNCHANGED << midi_out, note_off_queue, now >>
    /\ UNCHANGED << suite_running, sm_running, loop_at >>
    /\ UNCHANGED << clockVars, agentVars, animVars, audioVars, analyzerVars,
                    stepVars, moreVars >>

\* PerformanceSuite.stop: the port is closed, animation_controller.close(),
\* the two joins, return
SuiteStopEnd ==
    /\ stop_pc = "close"
    /\ midi_out' = FALSE
    /\ osc_client' = FALSE
    /\ websocket_client' = FALSE
    /\ stop_pc' = "done"
    /\ UNCHANGED << running, active_notes, note_off_queue, now, sent, raised >>
    /\ UNCHANGED << animation_state, protocol, osc_sent, anim_raised, emitted,
                    last_dict >>
    /\ UNCHANGED << suite_running, sm_running, loop_at >>
    /\ UNCHANGED << clockVars, agentVars, audioVars, analyzerVars, stepVars, moreVars >>

\* PerformanceSuite.__init__ and start(): the audio input has been started
\* (or could not be), the MIDI generator and the session manager run, the
\* four threads are at the top of their loops
ShutdownInit ==
    /\ update_rate = 1
    /\ ClockStart
    /\ midi_out \in BOOLEAN
    /\ active_notes = << >>
    /\ note_off_queue = << >>
    /\ now = 0
    /\ sent = << >>
    /\ raised = "none"
    /\ running = TRUE
    /\ AgentsAside
    /\ AnimStart
    /\ suite_running = TRUE
    /\ sm_running = TRUE
    /\ stop_pc = "idle"
    /\ loop_at = [t \in {"tick", "timer", "audio", "monitor"} |-> "check"]
    /\ \E outcome \in StartOutcomes :
           /\ audio_running = (outcome = "ok")
           /\ stream = CASE outcome = "ok" -> "started"
                         [] outcome = "start fails" -> "created"
                         [] OTHER -> "none"
    /\ stream_log = << >>
    /\ audio_raised = "none"
    /\ audio_buffer = [i \in 1..(4 * BufferSize) |-> 0]
    /\ stats = [peak_level |-> 0, rms_level |-> << 0, 1 >>,
                clipping |-> FALSE, dropout |-> FALSE]
    /\ AnalyzerStart
    /\ StepsAside
    /\ MoreAside

ShutdownNext ==
    \/ \E t \in {"tick", "timer", "audio", "monitor"} : LoopCheck(t)
    \/ \E t \in {"tick", "timer", "audio", "monitor"} : LoopBody(t)
    \/ TimePasses
    \/ SuiteStopBegin \/ SuiteStopMidi \/ SuiteStopEnd

SpecShutdown == ShutdownInit /\ [][ShutdownNext]_vars

(***************************************************************************)
(* One pass of the audio-processing loop with a frame to analyse           *)
(* (analyze_frame, _convert_features_for_session_manager,                  *)
(* update_audio_features), next to tempo_change commands and update_cycle. *)
(* The estimates of this specification all report the tempo 140, so the    *)
(* smoothed tempo is a whole number.                                       *)
(***************************************************************************)
CycleFrames == { [length |-> n, rms |-> 5] : n \in {1, HopLength} }

CycleEstimates == { est \in Estimates : est.tempo = 140 }

\* PerformanceSuite._convert_features_for_session_manager
ConvertFeatures(f) ==
    Features(TRUE, FALSE, f.tempo.value[1] \div f.tempo.value[2],
             TRUE, f.dynamics.value, TRUE, f.chords.value)

\* _audio_processing_loop, from analyze_frame to update_audio_features
AnalysisCycle ==
    /\ Len(analyzer.tempo_history) < MaxFrames
    /\ \E frame \in CycleFrames, est \in CycleEstimates :
           LET r == AnalyzeFrame(analyzer, frame, est)
           IN  /\ analyzer' = r.an
               /\ analysis' = r.out
               /\ analyzer_raised' = r.err
               /\ audio_features' = ConvertFeatures(r.out[1])
               /\ context' = ContextAfterFeatures(context,
                                                  ConvertFeatures(r.out[1]))
    /\ UNCHANGED << update_rate, control_commands, is_active, pc, agent_idx,
                    seen, pushed, ticks, steady, run_tempo >>
    /\ UNCHANGED << midiVars, agentVars, animVars, suiteVars, audioVars,
                    stepVars, moreVars >>

\* SessionManager.add_control_command({"type": "tempo_change", "tempo": 90})
AddTempoChange ==
    /\ Len(control_commands) < MaxQueue
    /\ control_commands' =
          Append(control_commands, Cmd("tempo_change", TRUE, 90, ""))
    /\ UNCHANGED << update_rate, context, audio_features, is_active, pc,
                    agent_idx, seen, pushed, ticks, steady, run_tempo >>
    /\ UNCHANGED << midiVars, agentVars, animVars, restVars >>

CycleInit ==
    /\ update_rate = 1
    /\ ClockStart
    /\ midi_out = TRUE
    /\ MidiStart
    /\ AgentsAside
    /\ AnimStart
    /\ RestAside

CycleNext == AddTempoChange \/ UpdateCycle \/ AnalysisCycle

SpecCycle == CycleInit /\ [][CycleNext]_vars

(***************************************************************************)
(* AudioAnalyzer._extract_chords from the template scores on: the scores   *)
(* (correlations of the averaged chroma with the 24 templates) are what    *)
(* librosa and numpy yield for a frame and are an input, in hundredths.    *)
(* The call leaves its argument and its result in `analysis`.              *)
(***************************************************************************)
\* _initialize_chord_templates: the keys of chord_templates in the order of
\* insertion, the twelve major triads and then the twelve minor ones
chord_templates ==
    << "C", "C#", "D", "D#", "E", "F", "F#", "G", "G#", "A", "A#", "B",
       "Cm", "C#m", "Dm", "D#m", "Em", "Fm", "F#m", "Gm", "G#m", "Am",
       "A#m", "Bm" >>

\* The scores tried: four templates take any of the values, the other
\* twenty score 0.3.
ChordScores ==
    { [ name \in { chord_templates[i] : i \in 1..24 } |->
          CASE name = "C" -> c [] name = "F" -> f [] name = "G" -> g
            [] name = "Am" -> a [] OTHER -> 30 ] :
        c \in {0, 40, 50, 60, 90}, f \in {0, 40, 50, 60, 90},
        g \in {0, 40, 50, 60, 90}, a \in {0, 40, 50, 60, 90} }

\* sorted(chord_scores.items(), key=lambda x: x[1], reverse=True)[:k]: the
\* sort is stable, so of two templates with one score the one inserted
\* first comes first.
RECURSIVE TopChords(_, _, _)
TopChords(names, scores, k) ==
    IF k = 0 \/ names = << >> THEN << >>
    ELSE LET first == CHOOSE i \in 1..Len(names) :
                        /\ \A j \in 1..Len(names) :
                              scores[names[j]] <= scores[names[i]]
                        /\ \A j \in 1..(i - 1) :
                              scores[names[j]] < scores[names[i]]
         IN  << names[first] >>
             \o TopChords(SelectSeq(names, LAMBDA n : n # names[first]),
                          scores, k - 1)

\* AudioAnalyzer._extract_chords, from "Get the top 3 chords" on
ExtractChords(scores) ==
    LET top_chords == TopChords(chord_templates, scores, 3)
        best == scores[top_chords[1]]
        second == scores[top_chords[2]]
    IN  [ chords |-> SelectSeq(top_chords, LAMBDA c : scores[c] > 50),
          confidence |-> IF best > 0 THEN << best - second, best >>
                         ELSE << 0, 1 >> ]

CallExtractChords ==
    /\ \E scores \in ChordScores :
          analysis' = << [ scores |-> scores ] @@ ExtractChords(scores) >>
    /\ UNCHANGED << analyzer, analyzer_raised >>
    /\ UNCHANGED << clockVars, midiVars, agentVars, animVars, suiteVars,
                    audioVars, stepVars, moreVars >>

ChordsInit ==
    /\ update_rate = 1
    /\ ClockStart
    /\ midi_out = TRUE
    /\ MidiStart
    /\ AgentsAside
    /\ AnimStart
    /\ RestAside

SpecChords == ChordsInit /\ [][CallExtractChords]_vars

(***************************************************************************)
(* PerformanceSuite._audio_callback, called on the driver's thread, and    *)
(* the audio-processing loop, step by step.  A block is the sequence of    *)
(* its samples, and a sample is the number of the block it came with, so   *)
(* that a frame shows which blocks it was concatenated from.  A "with      *)
(* self._audio_buffer_lock" is entered when no other thread holds the      *)
(* lock.                                                                   *)
(***************************************************************************)
MaxBlocks == 3      \* blocks the driver delivers

\* "with self._audio_buffer_lock" entered without waiting for the lock.
LockFreeAlways(owner) == TRUE

\* "with self._audio_buffer_lock": the lock can be taken
LockFree(owner) == owner = "none"

\* np.concatenate(self._audio_buffer)
RECURSIVE Concatenate(_)
Concatenate(blocks) ==
    IF blocks = << >> THEN << >>
    ELSE Head(blocks) \o Concatenate(Tail(blocks))

\* the driver calls _audio_callback(audio_data): the lock is entered
CallbackEnter ==
    /\ cb_pc = "idle"
    /\ IF delivered = << >> THEN TRUE
       ELSE delivered[Len(delivered)] < MaxBlocks
    /\ LockFree(buffer_lock)
    /\ \E frames \in 1..2 :
          LET number == IF delivered = << >> THEN 1
                        ELSE delivered[Len(delivered)] + 1
              block == [i \in 1..frames |-> number]
          IN  /\ cb_block' = block
              /\ delivered' = delivered \o block
    /\ buffer_lock' = "callback"
    /\ cb_pc' = "append"
    /\ UNCHANGED << suite_buffer, proc_pc, proc_data, analyzed >>
    /\ UNCHANGED << clockVars, midiVars, agentVars, animVars, suiteVars,
                    audioVars, analyzerVars, stepVars, sessionVars >>

\* self._audio_buffer.append(audio_data.copy()), and the lock is left
CallbackAppend ==
    /\ cb_pc = "append"
    /\ suite_buffer' = Append(suite_buffer, cb_block)
    /\ buffer_lock' = "none"
    /\ cb_pc' = "idle"
    /\ cb_block' = << >>
    /\ UNCHANGED << proc_pc, proc_data, delivered, analyzed >>
    /\ UNCHANGED << clockVars, midiVars, agentVars, animVars, suiteVars,
                    audioVars, analyzerVars, stepVars, sessionVars >>

\* _audio_processing_loop: audio_data = None, the lock is entered
ProcessEnter ==
    /\ proc_pc = "idle"
    /\ LockFree(buffer_lock)
    /\ proc_data' = << >>
    /\ buffer_lock' = "loop"
    /\ proc_pc' = "read"
    /\ UNCHANGED << suite_buffer, cb_pc, cb_block, delivered, analyzed >>
    /\ UNCHANGED << clockVars, midiVars, agentVars, animVars, suiteVars,
                    audioVars, analyzerVars, stepVars, sessionVars >>

\* "if self._audio_buffer: audio_data = np.concatenate(self._audio_buffer)";
\* with an empty buffer the lock is left
ProcessConcatenate ==
    /\ proc_pc = "read"
    /\ IF suite_buffer # << >>
       THEN /\ proc_data' = << Concatenate(suite_buffer) >>
            /\ proc_pc' = "clear"
            /\ UNCHANGED buffer_lock
       ELSE /\ proc_pc' = "test"
            /\ buffer_lock' = "none"
            /\ UNCHANGED proc_data
    /\ UNCHANGED << suite_buffer, cb_pc, cb_block, delivered, analyzed >>
    /\ UNCHANGED << clockVars, midiVars, agentVars, animVars, suiteVars,
                    audioVars, analyzerVars, stepVars, sessionVars >>

\* "self._audio_buffer = []", and the lock is left
ProcessClear ==
    /\ proc_pc = "clear"
    /\ suite_buffer' = << >>
    /\ buffer_lock' = "none"
    /\ proc_pc' = "test"
    /\ UNCHANGED << cb_pc, cb_block, proc_data, delivered, analyzed >>
    /\ UNCHANGED << clockVars, midiVars, agentVars, animVars, suiteVars,
                    audioVars, analyzerVars, stepVars, sessionVars >>

\* "if audio_data is not None and len(audio_data) > 0:" analyze_frame is
\* called with the frame
ProcessTest ==
    /\ proc_pc = "test"
    /\ IF proc_data # << >> /\ Len(proc_data[1]) > 0
       THEN /\ analyzed' = Append(analyzed, proc_data[1])
            /\ proc_pc' = "analyze"
       ELSE /\ proc_pc' = "idle"
            /\ UNCHANGED analyzed
    /\ UNCHANGED << suite_buffer, buffer_lock, cb_pc, cb_block, proc_data,
                    delivered >>
    /\ UNCHANGED << clockVars, midiVars, agentVars, animVars, suiteVars,
                    audioVars, analyzerVars, stepVars, sessionVars >>

\* analyze_frame returns or raises (the except clause logs), the features
\* are handed on, and the loop sleeps
ProcessAnalyzed ==
    /\ proc_pc = "analyze"
    /\ proc_pc' = "idle"
    /\ proc_data' = << >>
    /\ UNCHANGED << suite_buffer, buffer_lock, cb_pc, cb_block, delivered,
                    analyzed >>
    /\ UNCHANGED << clockVars, midiVars, agentVars, animVars, suiteVars,
                    audioVars, analyzerVars, stepVars, sessionVars >>

BufferInit ==
    /\ update_rate = 1
    /\ ClockStart
    /\ midi_out = TRUE
    /\ MidiStart
    /\ AgentsAside
    /\ AnimStart
    /\ RestAside

BufferNext ==
    \/ CallbackEnter \/ CallbackAppend
    \/ ProcessEnter \/ ProcessConcatenate \/ ProcessClear
    \/ ProcessTest \/ ProcessAnalyzed

SpecBuffer == BufferInit /\ [][BufferNext]_vars

(***************************************************************************)
(* The analyzer called with one frame after the other.                     *)
(***************************************************************************)
\* AudioAnalyzer.analyze_frame(audio_frame)
CallAnalyzeFrame(frame) ==
    /\ Len(analyzer.tempo_history) < MaxFrames
    /\ \E est \in Estimates :
           LET r == AnalyzeFrame(analyzer, frame, est)
           IN  /\ analyzer' = r.an
               /\ analysis' = r.out
               /\ analyzer_raised' = r.err
    /\ UNCHANGED << clockVars, midiVars, agentVars, animVars, suiteVars,
                    audioVars, stepVars, moreVars >>

AnalyzerInit ==
    /\ update_rate = 1
    /\ ClockStart
    /\ midi_out = TRUE
    /\ MidiStart
    /\ AgentsAside
    /\ AnimStart
    /\ RestAside

AnalyzerNext == \E frame \in Frames : CallAnalyzeFrame(frame)

SpecAnalyzer == AnalyzerInit /\ [][AnalyzerNext]_vars

(***************************************************************************)
(* The animation controller called with the dictionaries of a sequence of  *)
(* contexts (main.py registers it as the session manager's context         *)
(* listener, so that each tick calls it once).  In 4/4 the beat positions  *)
(* are on beat 0, within the tolerance of it, off every beat and on beat   *)
(* 2; in 3/4 on beat 1.5 and on beat 2; in 6/8 on beat 3.  None is at the  *)
(* distance 0.05 itself.                                                   *)
(***************************************************************************)
AnimContexts ==
    { [ MusicalContext EXCEPT !.tempo = t, !.section = s, !.dynamics = dy,
                              !.beat_position = b[1],
                              !.time_signature = b[2] ] :
        t \in {120, 90}, s \in {"verse", "chorus"}, dy \in {50, 80},
        b \in { << 0, << 4, 4 >> >>, << 2, << 4, 4 >> >>,
                << 100, << 4, 4 >> >>, << 120, << 4, 4 >> >>,
                << 90, << 3, 4 >> >>, << 120, << 3, 4 >> >>,
                << 180, << 6, 8 >> >> } }

\* The data of the last message of `out` to `address`, else `before`.
LastEmitted(out, address, before) ==
    LET I == { i \in 1..Len(out) : out[i].address = address }
    IN  IF I = {} THEN before
        ELSE << out[CHOOSE i \in I : \A j \in I : j <= i].data >>

\* The state an operation of the controller starts from, and what it
\* leaves behind.
AnimEntry == [state |-> animation_state, out |-> << >>, err |-> "none"]

AnimLeave(st) ==
    /\ animation_state' = st.state
    /\ osc_sent' = st.out
    /\ anim_raised' = st.err
    /\ emitted' =
         [ tempo |-> LastEmitted(st.out, "/tempo", emitted.tempo),
           section |-> LastEmitted(st.out, "/section", emitted.section),
           intensity |-> LastEmitted(st.out, "/intensity",
                                     emitted.intensity) ]
    /\ UNCHANGED << protocol, osc_client, websocket_client >>
    /\ UNCHANGED << clockVars, midiVars, agentVars, restVars >>

\* AnimationController.update_from_musical_context(context.to_dict())
CallUpdateFromMusicalContext ==
    \E ctx \in AnimContexts :
        /\ AnimLeave(UpdateFromMusicalContext(AnimEntry, Client,
                                              Snapshot(ctx), update_rate))
        /\ last_dict' = << Snapshot(ctx) >>

\* AnimationController.close
CallClose ==
    /\ osc_client \/ websocket_client
    /\ osc_client' = FALSE
    /\ websocket_client' = FALSE
    /\ osc_sent' = << >>
    /\ anim_raised' = "none"
    /\ UNCHANGED << animation_state, protocol, emitted, last_dict >>
    /\ UNCHANGED << clockVars, midiVars, agentVars, restVars >>

AnimInit ==
    /\ update_rate = 1
    /\ ClockStart
    /\ midi_out = TRUE
    /\ MidiStart
    /\ AgentsAside
    /\ AnimStart
    /\ RestAside

AnimNext == CallUpdateFromMusicalContext \/ CallClose

SpecAnim == AnimInit /\ [][AnimNext]_vars

(***************************************************************************)
(* The controller built for any protocol, with a client that could or      *)
(* could not be created, and every operation that sends called directly.   *)
(***************************************************************************)
Protocols == {"osc", "websocket", "mqtt"}

AnimBatches ==
    { << >>, << Note(38, 90, 1, 9), Note(42, 70, 1, 9) >> }

TransportContexts ==
    { MusicalContext,
      [ MusicalContext EXCEPT !.tempo = 90, !.section = "chorus",
                              !.dynamics = 80, !.beat_position = 100 ] }

CallUpdateTempo ==
    \E tempo \in {120, 90} :
        /\ AnimLeave(UpdateTempo(AnimEntry, Client, tempo))
        /\ UNCHANGED last_dict

CallUpdateSection ==
    \E section \in {"verse", "chorus"} :
        /\ AnimLeave(UpdateSection(AnimEntry, Client, section))
        /\ UNCHANGED last_dict

CallUpdateIntensity ==
    \E intensity \in {50, 80} :
        /\ AnimLeave(UpdateIntensity(AnimEntry, Client, intensity))
        /\ UNCHANGED last_dict

CallUpdateBeatPosition ==
    \E beat_position \in {0, 100} :
        /\ AnimLeave(UpdateBeatPosition(AnimEntry, Client, beat_position,
                                        beat_position, update_rate))
        /\ UNCHANGED last_dict

CallAgentNoteEvent ==
    \E agent_type \in {"drums", "bass"}, notes \in AnimBatches :
        /\ AnimLeave(AgentNoteEvent(AnimEntry, Client, agent_type, notes,
                                    now))
        /\ UNCHANGED last_dict

\* update_from_musical_context(context.to_dict()) with these dictionaries
CallUpdateFromContext ==
    \E ctx \in TransportContexts :
        /\ AnimLeave(UpdateFromMusicalContext(AnimEntry, Client,
                                              Snapshot(ctx), update_rate))
        /\ last_dict' = << Snapshot(ctx) >>

TransportInit ==
    /\ update_rate = 1
    /\ ClockStart
    /\ midi_out = TRUE
    /\ MidiStart
    /\ AgentsAside
    /\ \E proto \in Protocols, created \in BOOLEAN :
           AnimConstruct(proto, created)
    /\ RestAside

TransportNext ==
    \/ CallUpdateTempo
    \/ CallUpdateSection
    \/ CallUpdateIntensity
    \/ CallUpdateBeatPosition
    \/ CallAgentNoteEvent
    \/ CallUpdateFromContext
    \/ CallClose

SpecTransport == TransportInit /\ [][TransportNext]_vars

(***************************************************************************)
(* Properties of the clock (SpecClock unless said otherwise).              *)
(***************************************************************************)
\* Units of beat_position in one bar.
BarUnits == context.time_signature[1] * BeatUnit(update_rate)

\* C1.  Starting from beat_position 0 and bar_position 1, after n ticks
\* that all advanced the beat at one tempo T > 0, beat_position is
\* ((T/60)/R * n) mod beats_per_bar and bar_position has grown by
\* floor(((T/60)/R * n) / beats_per_bar).
C1_BeatAfterNTicks ==
    (steady /\ ticks > 0 /\ run_tempo > 0) =>
        /\ context.beat_position = (run_tempo * ticks) % BarUnits
        /\ context.bar_position = 1 + ((run_tempo * ticks) \div BarUnits)

\* C2.  In every reachable state 0 <= beat_position < beats_per_bar and
\* bar_position >= 1.
C2_BeatInRange ==
    /\ 0 <= context.beat_position
    /\ context.beat_position < BarUnits
    /\ context.bar_position >= 1

\* C5.  An update_cycle that starts stopped and applies no start command
\* leaves the clock stopped, leaves beat_position and bar_position as they
\* were, and no agent pushes a note batch.
C5_StoppedClockIsFrozen ==
    [][ ( /\ UpdateCycle
          /\ ~context.is_playing
          /\ \A i \in 1..Len(control_commands) :
                 control_commands[i].type # "start" )
        => /\ ~context'.is_playing
           /\ context'.beat_position = context.beat_position
           /\ context'.bar_position = context.bar_position
           /\ pushed' = << >> ]_vars

\* A tick ran with the clock stopped in mid-bar.
C5_Witness ==
    /\ ~context.is_playing
    /\ context.beat_position > 0
    /\ ticks >= 2
    /\ pushed = << >>

\* The commands of a queue applied one after the other, oldest first.
InArrivalOrder(ctx, cmds) ==
    LET f[i \in 0..Len(cmds)] ==
            IF i = 0 THEN ctx ELSE ApplyCommand(f[i - 1], cmds[i])
    IN  f[Len(cmds)]

\* C7.  Each update_cycle applies the commands queued at its start in
\* arrival order, before it advances the beat, and leaves the queue empty
\* (so none is applied again by a later tick).
C7_QueueDrainedInOrder ==
    [][ UpdateCycle
        => /\ control_commands' = << >>
           /\ context' = AdvanceBeat(InArrivalOrder(context, control_commands),
                                     update_rate) ]_vars

\* The first tick applied a start and a tempo change and then advanced the
\* beat by the new tempo: one whole bar at 2 Hz.
C7_Witness ==
    /\ ticks = 1
    /\ update_rate = 2
    /\ context.is_playing
    /\ context.tempo = 480
    /\ context.beat_position = 0
    /\ context.bar_position = 2
    /\ control_commands = << >>

\* Index of the last command of the queue with a type in `types`, else 0.
LastOfType(cmds, types) ==
    LET I == { i \in 1..Len(cmds) : cmds[i].type \in types }
    IN  IF I = {} THEN 0 ELSE CHOOSE i \in I : \A j \in I : j <= i

\* C8.  start sets is_playing, stop clears it, and no other command
\* changes it; tempo, key and section change only by a command of their
\* own type; the commands change nothing else: beat_position and
\* bar_position move only by the tick's own advance.
C8_CommandFrames ==
    [][ UpdateCycle
        => LET cmds == control_commands
               p == LastOfType(cmds, {"start", "stop"})
           IN  /\ context'.is_playing =
                     IF p = 0 THEN context.is_playing ELSE cmds[p].type = "start"
               /\ LastOfType(cmds, {"tempo_change"}) = 0
                     => context'.tempo = context.tempo
               /\ LastOfType(cmds, {"key_change"}) = 0
                     => context'.key = context.key
               /\ LastOfType(cmds, {"section_change"}) = 0
                     => context'.section = context.section
               /\ context' = AdvanceBeat(
                                 [context EXCEPT !.is_playing = context'.is_playing,
                                                 !.tempo = context'.tempo,
                                                 !.key = context'.key,
                                                 !.section = context'.section],
                                 update_rate) ]_vars

\* The first tick applied a tempo change and nothing moved.
C8_Witness ==
    /\ ticks = 1
    /\ context.tempo = 480
    /\ ~context.is_playing
    /\ context.beat_position = 0
    /\ context.bar_position = 1

\* C9.  An update_cycle with an empty command queue changes no context
\* field other than beat_position and bar_position, and changes nothing
\* when the clock is stopped.
C9_EmptyQueueTick ==
    [][ (UpdateCycle /\ control_commands = << >>)
        => /\ context' = [context EXCEPT
                              !.beat_position = context'.beat_position,
                              !.bar_position = context'.bar_position]
           /\ ~context.is_playing => context' = context ]_vars

\* Two ticks ran while playing and the other fields are as constructed.
C9_Witness ==
    /\ ticks = 2
    /\ control_commands = << >>
    /\ context.is_playing
    /\ context.beat_position > 0
    /\ context.key = "C"
    /\ context.section = "verse"
    /\ context.tempo = 120

\* C10.  update_audio_features sets tempo from a tempo that is present and
\* not None, dynamics from a dynamics that is present, chord from the first
\* chord of a non-empty list, leaves each of them alone otherwise, and
\* changes no other field.
C10_AudioFeatureFrames ==
    [][ UpdateAudioFeatures
        => LET f == audio_features'
           IN  context' =
                 [context EXCEPT
                    !.tempo = IF f.has_tempo /\ ~f.tempo_none
                              THEN f.tempo ELSE @,
                    !.dynamics = IF f.has_dynamics THEN f.dynamics ELSE @,
                    !.chord = IF f.has_chords /\ Len(f.chords) > 0
                              THEN f.chords[1] ELSE @] ]_vars

\* Features with a tempo of None and an empty chord list arrived and the
\* tempo set by a command and the chord heard before are still there.
C10_Witness ==
    /\ audio_features.has_tempo /\ audio_features.tempo_none
    /\ audio_features.has_chords /\ audio_features.chords = << >>
    /\ context.tempo = 480
    /\ context.chord = "D"

\* C11 (SpecPayload).  In every state reachable by control commands of any
\* payload and audio feature updates, context.tempo is strictly greater
\* than 0.
C11_TempoPositive == context.tempo > 0

\* C6.  Every agent and context listener called within one tick reads the
\* same context: nothing writes it between two of them.
C6_OneSnapshotPerTick ==
    [][ (TickAgent \/ TickListeners)
        => \A i \in 1..Len(seen) : seen[i] = Snapshot(context) ]_vars

\* C25.  A command added by add_control_command while update_cycle runs on
\* the update thread is applied by that tick or a later one: when the queue
\* is cleared, every command in it has been applied.
C25_NoCommandDiscarded ==
    [][ TickCommandsClear => cmd_idx = Len(control_commands) ]_vars

\* C29.  Within each update_cycle the queued commands are applied first,
\* then the beat position is advanced, then every registered agent is
\* called exactly once in registration order, then the listeners: no agent
\* is called before the advance, the k-th call is the k-th agent's, the
\* listeners are called after all agents, and all of them read the context
\* as the advance left it.
C29_TickOrder ==
    [][ /\ (TickCommandsStep \/ TickCommandsClear \/ TickAdvance)
              => seen = << >>
        /\ TickAdvance => pc' = "agents" /\ agent_idx' = 1
        /\ TickAgent => /\ Len(seen) = agent_idx - 1
                        /\ context' = context
                        /\ pc' = "listeners" <=> agent_idx = Len(agents)
        /\ TickListeners => /\ Len(seen) = Len(agents)
                            /\ \A i \in 1..Len(seen) :
                                  seen[i] = Snapshot(context) ]_vars

\* a tick that applied a command and advanced the beat has called both
\* agents and is about to call the listeners
C29_Witness ==
    /\ pc = "listeners"
    /\ cmd_idx >= 1
    /\ context.is_playing
    /\ context.beat_position > 0
    /\ Len(seen) = 2
    /\ pushed = agents

(***************************************************************************)
(* Properties of the agents' generate_notes (SpecAgents).                  *)
(***************************************************************************)
\* C12.  For a context with beat_position 0.0, any section (the five known
\* ones or an unknown one) and any dynamics in [0,1], DrumsAgent.generate_notes
\* returns at least one note, and every note it returns has channel 9 and
\* velocity in [1,127].
C12_DrumsOnBeatZero ==
    ( /\ notes_by = "drums"
      /\ context.beat_position = 0
      /\ context.dynamics \in 0..100 )
    => /\ Len(generated) >= 1
       /\ \A i \in 1..Len(generated) :
              /\ generated[i].channel = 9
              /\ generated[i].velocity \in 1..127

\* The drums were asked on beat 0 of a section they have no pattern for, at
\* dynamics 0: the kick and the hi-hat of the verse, both attenuated.
C12_Witness ==
    /\ notes_by = "drums"
    /\ context.beat_position = 0
    /\ context.section = "solo"
    /\ context.dynamics = 0
    /\ Len(generated) = 2
    /\ generated[1] = Note(36, 70, 1, 9)
    /\ generated[2].pitch = 42

\* C13.  Every note returned by DrumsAgent.generate_notes or
\* BassAgent.generate_notes, for every key, chord label, section, dynamics
\* and beat position, has pitch in 0..127, velocity in 0..127, duration > 0
\* and channel in 0..15.
C13_NotesAreMidiNotes ==
    notes_by # "none" =>
        \A i \in 1..Len(generated) :
            /\ generated[i].pitch \in 0..127
            /\ generated[i].velocity \in 0..127
            /\ generated[i].duration > 0
            /\ generated[i].channel \in 0..15

\* The bass played the root of the chorus at full dynamics in the key of C
\* over a B chord: the boosted velocity is capped and the pitch is moved up
\* by the chord's root.
C13_Witness ==
    /\ notes_by = "bass"
    /\ context.key = "C"
    /\ context.chord = "Bm"
    /\ context.section = "chorus"
    /\ context.dynamics = 100
    /\ generated = << Note(47, 127, 9, 0) >>

\* What the agent of the last call returns for the context ctx.
Regenerated(ctx) ==
    IF notes_by = "drums"
    THEN DrumsGenerateNotes(drum_patterns, ctx, update_rate)
    ELSE BassGenerateNotes(bass_patterns, ctx, update_rate)

\* C14.  For the same pattern event, the velocity an agent emits is
\* non-decreasing in the context's dynamics: the notes returned at any
\* dynamics that is not lower are the same events, each at a velocity that
\* is not lower (below 0.3 attenuated, in [0.3, 0.7] unchanged, above 0.7
\* boosted and capped at 127).
C14_VelocityMonotoneInDynamics ==
    notes_by # "none" =>
        \A dy \in {0, 50, 100} :
            dy >= context.dynamics =>
                LET louder == Regenerated([context EXCEPT !.dynamics = dy])
                IN  /\ Len(louder) = Len(generated)
                    /\ \A i \in 1..Len(generated) :
                           /\ louder[i].pitch = generated[i].pitch
                           /\ generated[i].velocity <= louder[i].velocity

\* The bass played the root of the verse at dynamics 0: velocity 70, which
\* is 100 at dynamics 0.5 and 120 at dynamics 1.
C14_Witness ==
    /\ notes_by = "bass"
    /\ context.section = "verse"
    /\ context.dynamics = 0
    /\ generated # << >>
    /\ generated[1].velocity = 70
    /\ Regenerated([context EXCEPT !.dynamics = 50])[1].velocity = 100
    /\ Regenerated([context EXCEPT !.dynamics = 100])[1].velocity = 120

\* C30.  While the clock plays and the agent is active, on_context_update
\* pushes a batch to the listeners on exactly the ticks whose beat_position
\* is within 0.05 beats of an event of the agent's pattern (generate_notes
\* finds a note there), events at non-integer positions included: for the
\* context the agents hold, were the clock playing, the agent pushes if and
\* only if its pattern has such an event.
C30_PushOnPatternEvents ==
    \A agent \in {"drums", "bass"} :
        LET ctx == [context EXCEPT !.is_playing = TRUE]
            notes == IF agent = "drums"
                     THEN DrumsGenerateNotes(drum_patterns, ctx, update_rate)
                     ELSE BassGenerateNotes(bass_patterns, ctx, update_rate)
        IN  PushesNotes(agent, ctx, update_rate) <=> notes # << >>

(***************************************************************************)
(* Properties of the MIDI generator (SpecMidi).                            *)
(***************************************************************************)
\* The (channel, note) pairs in active_notes.
ActivePairs(active) ==
    UNION { { << active[i].channel, active[i].notes[k].note >> :
                k \in 1..Len(active[i].notes) } : i \in 1..Len(active) }

\* C3.  The pending note-off queue holds at most one entry for each
\* (pitch, channel) pair.
C3_OneNoteOffPerPair ==
    \A i, j \in 1..Len(note_off_queue) :
        ( /\ note_off_queue[i].note = note_off_queue[j].note
          /\ note_off_queue[i].channel = note_off_queue[j].channel ) => i = j

\* C4.  With an open port, all_notes_off raises nothing, sends exactly one
\* note-off for every (channel, pitch) that was in active_notes and leaves
\* active_notes empty.
C4_AllNotesOffSilencesAll ==
    [][ (midi_out /\ CallAllNotesOff)
        => /\ raised' = "none"
           /\ active_notes' = << >>
           /\ Len(sent') = Cardinality(ActivePairs(active_notes))
           /\ \A pr \in ActivePairs(active_notes) :
                  \E k \in 1..Len(sent') :
                      sent'[k] = Msg("note_off", pr[2], 0, pr[1]) ]_vars

\* C15.  When no MIDI output port is open, send_note_on, send_note_off,
\* send_control_change, send_program_change, process_notes and all_notes_off
\* send no message, raise no error and leave active_notes unchanged.
C15_NoPortNoMessage ==
    [][ ( /\ ~midi_out
          /\ \/ CallSendNoteOn \/ CallSendNoteOff \/ CallSendControlChange
             \/ CallSendProgramChange \/ CallProcessNotes \/ CallAllNotesOff )
        => /\ sent' = << >>
           /\ raised' = "none"
           /\ active_notes' = active_notes ]_vars

\* A generator built without a port was handed a batch of notes: nothing
\* was sent and nothing is tracked, only the note-offs are queued.
C15_Witness ==
    /\ ~midi_out
    /\ ~running
    /\ Len(note_off_queue) = 2
    /\ active_notes = << >>
    /\ sent = << >>
    /\ raised = "none"

\* C16.  When MidiGenerator.stop() returns, whatever notes were sounding and
\* whatever note-offs were pending, every note that was in active_notes has
\* received exactly one note-off, and both active_notes and the pending
\* note-off queue are empty.
C16_StopSilencesAndClears ==
    [][ (CallStop /\ raised' = "none")
        => /\ active_notes' = << >>
           /\ note_off_queue' = << >>
           /\ midi_out
                => /\ Len(sent') = Cardinality(ActivePairs(active_notes))
                   /\ \A pr \in ActivePairs(active_notes) :
                          \E k \in 1..Len(sent') :
                              sent'[k] = Msg("note_off", pr[2], 0, pr[1]) ]_vars

\* C17.  The timer loop never sends a note-off for a (channel, pitch) that
\* is not in active_notes at that moment: the note-offs of one poll are for
\* pairs that were active when it began, each pair once (so that each
\* note-on of process_notes is matched by exactly one note-off).
C17_NoteOffOnlyForActive ==
    [][ NoteOffPoll
        => /\ \A k \in 1..Len(sent') :
                  << sent'[k].channel, sent'[k].note >>
                      \in ActivePairs(active_notes)
           /\ \A j, k \in 1..Len(sent') :
                  ( /\ sent'[j].channel = sent'[k].channel
                    /\ sent'[j].note = sent'[k].note ) => j = k ]_vars

(***************************************************************************)
(* Properties of the animation controller (SpecAnim).                      *)
(***************************************************************************)
\* The number of messages of `out` to `address`.
Sent(out, address) ==
    Cardinality({ i \in 1..Len(out) : out[i].address = address })

C19_IntensityOnlyOnChange ==
    [][ CallUpdateFromMusicalContext
        => ( Sent(osc_sent', "/intensity") > 0
               => emitted.intensity # << last_dict'[1].dynamics >> ) ]_vars

\* beat_position is within 0.05 of beat 0 or of beats_per_bar / 2.
OnBarStartOrMiddle(ctx, rate) ==
    LET bp == ctx.beat_position
        d0 == IF bp >= 0 THEN bp ELSE -bp
        twice == 2 * bp - ctx.time_signature[1] * BeatUnit(rate)
        dm == IF twice >= 0 THEN twice ELSE -twice
    IN  20 * d0 < BeatUnit(rate) \/ 20 * dm < 2 * BeatUnit(rate)

\* C20.  On every tick the controller (with its transport) sends exactly
\* one /beat message, and a /beat/strong message exactly when beat_position
\* is within 0.05 of beat 0 or of beats_per_bar / 2 of the context's time
\* signature, whatever beats_per_bar is.
C20_BeatAndStrongBeat ==
    [][ (CallUpdateFromMusicalContext /\ osc_client)
        => /\ Sent(osc_sent', "/beat") = 1
           /\ Sent(osc_sent', "/beat/strong") <= 1
           /\ Sent(osc_sent', "/beat/strong") = 1
                <=> OnBarStartOrMiddle(last_dict'[1], update_rate) ]_vars

(***************************************************************************)
(* Properties of the animation controller without a transport              *)
(* (SpecTransport).                                                        *)
(***************************************************************************)
\* C21: while the outbound client is absent (it could not be created, the
\* protocol is unsupported, or close() was called), whatever operation ran
\* last (update_tempo, update_section, update_intensity,
\* update_beat_position, update_from_musical_context, agent_note_event)
\* sent nothing and raised nothing.
C21_NoClientNoSend ==
    ~Client => osc_sent = << >> /\ anim_raised = "none"

\* without a client, the tempo was updated, an agent's notes were reported
\* and a dictionary was handed over
C21_Witness ==
    /\ ~Client
    /\ animation_state.tempo = 90
    /\ animation_state.intensity = 80
    /\ animation_state.section = "chorus"
    /\ Len(animation_state.agents) = 2
    /\ last_dict # << >>

C23_ShortFrameDefaults ==
    [][ \A frame \in Frames :
          (frame.length < HopLength /\ CallAnalyzeFrame(frame))
          => /\ analyzer_raised' = "none"
             /\ analysis' # << >>
             /\ analysis'[1].tempo = [value |-> << 120, 1 >>, confidence |-> 0]
             /\ analysis'[1].pitch.value = << >>
             /\ analysis'[1].pitch.confidence = << 0, 1 >>
             /\ analysis'[1].chords = [value |-> << >>, confidence |-> 0] ]_vars

(***************************************************************************)
(* Properties of the note-off timer (SpecTimer, and SpecMidi for C27).     *)
(***************************************************************************)
\* C26.  No scheduled note-off is lost, however process_notes interleaves
\* with the timer loop: when the loop stores the new queue, every entry of
\* the queue that was not yet due at the loop's current_time is in it.
C26_NoNoteOffLost ==
    [][ TimerStore
        => note_off_queue' =
             SelectSeq(note_off_queue, LAMBDA e : e.time > timer_time) ]_vars

\* C27.  A pitch re-triggered while an earlier note-off for it is pending
\* is not cut short: a poll with the port open sends no note-off for a
\* (channel, pitch) that a later-scheduled entry, not yet due, still holds.
C27_RetriggerNotCutShort ==
    [][ (NoteOffPoll /\ midi_out)
        => \A i, j \in 1..Len(note_off_queue) :
              ~ /\ i < j
                /\ note_off_queue[i].note = note_off_queue[j].note
                /\ note_off_queue[i].channel = note_off_queue[j].channel
                /\ note_off_queue[i].time <= now
                /\ note_off_queue[j].time > now ]_vars

C22_StopLeavesNoNote ==
    stop_pc = "done"
    => /\ ~suite_running /\ ~sm_running /\ ~running
       /\ \A i \in 1..Len(active_notes) : active_notes[i].notes = << >>

(***************************************************************************)
(* Properties of BassAgent.generate_notes and of the pattern fall-backs    *)
(* (SpecAgents).                                                           *)
(***************************************************************************)
\* The root name of a chord label, with its accidental: "C#" for "C#",
\* "B" for "Bm".
ChordRootName(chord) ==
    CASE chord = "Bm" -> "B"
      [] OTHER -> chord

\* C31.  The notes BassAgent.generate_notes returns have the pitches
\* scale(key)[scale_degree] + (root of the chord's root name, accidental
\* included, - root of the key), an unsupported key counting as C.
C31_BassPitchFromChordRoot ==
    notes_by = "bass"
    => LET section == IF context.section \in DOMAIN bass_patterns
                      THEN context.section ELSE "verse"
           key == IF context.key \in DOMAIN note_mapping
                  THEN context.key ELSE "C"
           name == ChordRootName(context.chord)
           offset == IF name \in DOMAIN note_mapping
                     THEN note_mapping[name].root - note_mapping[key].root
                     ELSE 0
           found == SelectSeq(bass_patterns[section],
                       LAMBDA n : OnCurrentBeat(n.beat_position,
                                                context.beat_position,
                                                update_rate))
       IN  /\ Len(generated) = Len(found)
           /\ \A i \in 1..Len(found) :
                 generated[i].pitch =
                    note_mapping[key].scale[found[i].scale_degree + 1] + offset

\* The context with the time signature and the section replaced by the
\* defaults where the drums hold no pattern for them.
WithDefaults(ctx) ==
    [ ctx EXCEPT
        !.time_signature =
            IF TimeSigStr(ctx.time_signature) \in DOMAIN drum_patterns
            THEN ctx.time_signature ELSE << 4, 4 >>,
        !.section =
            IF ctx.section \in DOMAIN bass_patterns
            THEN ctx.section ELSE "verse" ]

\* C32.  generate_notes called with a time signature or a section the agent
\* has no pattern for returns what it returns for 4/4 and for the verse, and
\* leaves the context as it was; no call raises.
C32_PatternFallbacks ==
    [][ ( CallDrumsGenerateNotes \/ CallBassGenerateNotes )
        => /\ context' = context
           /\ notes_by' = "drums"
              => generated' = DrumsGenerateNotes(drum_patterns,
                                  WithDefaults(context), update_rate)
           /\ notes_by' = "bass"
              => generated' = BassGenerateNotes(bass_patterns,
                                  WithDefaults(context), update_rate) ]_vars

\* The drums were asked in 3/4 time in a section without a pattern, the
\* bass in a section without a pattern: both answered with the first beat
\* of the verse.
C32_Witness ==
    /\ context.section = "solo"
    /\ context.beat_position = 0
    /\ context.dynamics = 50
    /\ \/ /\ notes_by = "drums"
          /\ context.time_signature = << 3, 4 >>
          /\ Len(generated) = 2
          /\ generated[1] = Note(36, 100, 1, 9)
       \/ /\ notes_by = "bass"
          /\ context.key = "C" /\ context.chord = ""
          /\ generated = << Note(36, 100, 9, 0) >>

(***************************************************************************)
(* Properties of the audio buffer shared by the driver's callback and the  *)
(* audio-processing loop (SpecBuffer).                                     *)
(***************************************************************************)
\* C33.  At every moment the frames analyze_frame was called with, followed
\* by the frame the loop has taken and not yet passed on, by the blocks in
\* the buffer and by the block the callback is about to append, are the
\* samples delivered, each once and in the order of arrival; and the loop
\* does not hold the lock while analyze_frame runs.
C33_EachBlockOnceInOrder ==
    /\ Concatenate(analyzed)
         \o ( IF proc_pc = "test" /\ proc_data # << >> THEN proc_data[1]
              ELSE << >> )
         \o Concatenate(suite_buffer)
         \o cb_block
       = delivered
    /\ proc_pc = "analyze" => buffer_lock # "loop"

\* Two blocks arrived before the loop drained the buffer and were analyzed
\* as one frame, a third arrived while analyze_frame ran.
C33_Witness ==
    /\ proc_pc = "analyze"
    /\ Len(analyzed) = 1
    /\ analyzed[1][1] = 1
    /\ analyzed[1][Len(analyzed[1])] = 2
    /\ Len(suite_buffer) = 1
    /\ suite_buffer[1][1] = 3

(***************************************************************************)
(* Properties of the chord extractor (SpecChords).                         *)
(***************************************************************************)
\* the templates whose score exceeds the threshold 0.5
AboveThreshold(scores) == { n \in DOMAIN scores : scores[n] > 50 }

\* The chords reported are templates above the threshold, at most three, by
\* descending score, and no template left out scores more than one reported.
ChordsAsClaimed(r) ==
    LET above == AboveThreshold(r.scores)
        n == Len(r.chords)
    IN  /\ n = IF Cardinality(above) > 3 THEN 3 ELSE Cardinality(above)
        /\ \A i \in 1..n : r.chords[i] \in above
        /\ \A i, j \in 1..n : i < j => /\ r.chords[i] # r.chords[j]
                                       /\ r.scores[r.chords[i]]
                                            >= r.scores[r.chords[j]]
        /\ \A m \in above \ { r.chords[i] : i \in 1..n } :
              \A i \in 1..n : r.scores[m] <= r.scores[r.chords[i]]

\* C34.  _extract_chords reports the templates scoring above 0.5, at most
\* three, by descending score; its confidence is 0 when no template is above
\* the threshold, 1 when exactly one is, and else the gap between the best
\* and the second-best score relative to the best.
C34_ChordsAndConfidence ==
    analysis # << >>
    => LET r == analysis[1]
           above == AboveThreshold(r.scores)
           top == TopChords(chord_templates, r.scores, 2)
           best == r.scores[top[1]]
           second == r.scores[top[2]]
       IN  /\ ChordsAsClaimed(r)
           /\ r.confidence[1] * ( CASE Cardinality(above) <= 1 -> 1
                                    [] OTHER -> best )
              = r.confidence[2] * ( CASE Cardinality(above) = 0 -> 0
                                      [] Cardinality(above) = 1 -> 1
                                      [] OTHER -> best - second )

(***************************************************************************)
(* Properties of the ticks of a playing clock (SpecBeat).                  *)
(***************************************************************************)
\* The agents pushed notes at the beat position of ctx, and the pattern
\* event at the whole beat e of the bar is within 0.05 beats of it.
EventPushed(ctx, agents_pushing, e) ==
    /\ agents_pushing # << >>
    /\ OnCurrentBeat(e * BeatUnit(update_rate), ctx.beat_position, update_rate)

\* C35.  While the clock plays at one tempo, a tick that passes or reaches a
\* whole beat has the pattern event of that beat pushed, by the tick before
\* it or by itself, and with less than a beat per tick no event is pushed
\* by two ticks in a row.
C35_EventOncePerBar ==
    [][ UpdateCycle
        => LET unit == BeatUnit(update_rate)
               from == context.beat_position
               to == context.beat_position + context.tempo
           IN  /\ \A b \in 1..4 :
                    ( from < b * unit /\ b * unit <= to )
                    => \/ EventPushed(context, pushed, b % 4)
                       \/ EventPushed(context', pushed', b % 4)
               /\ context.tempo < unit
                  => \A e \in 0..3 :
                        ~ ( /\ EventPushed(context, pushed, e)
                            /\ EventPushed(context', pushed', e) ) ]_vars

(***************************************************************************)
(* Properties of what the agents push (SpecAgents).                        *)
(***************************************************************************)
\* C36.  Whenever on_context_update calls the note listeners, the batch
\* generate_notes returned for the beat position holds at least one note.
C36_NoEmptyPush ==
    [][ \A agent \in {"drums", "bass"}, playing \in BOOLEAN :
          ( CallOnContextUpdate(agent, playing) /\ pushed' = << agent >> )
          => generated' # << >> ]_vars

(***************************************************************************)
(* Properties of the note-off queue without a port (SpecNoPort).           *)
(***************************************************************************)
\* C37.  Every entry of the note-off queue is for a (channel, pitch) that is
\* in active_notes.
C37_QueuedNotesAreActive ==
    \A i \in 1..Len(note_off_queue) :
        << note_off_queue[i].channel, note_off_queue[i].note >>
            \in ActivePairs(active_notes)

(***************************************************************************)
(* Properties of the audio input across the shutdown (SpecShutdown).       *)
(***************************************************************************)
\* C38.  Once PerformanceSuite.stop() has returned and the four loops have
\* exited, the audio input is not running and its stream is not started.
C38_InputStoppedAfterStop ==
    ( /\ stop_pc = "done"
      /\ \A t \in {"tick", "timer", "audio", "monitor"} : loop_at[t] = "exited" )
    => /\ ~audio_running
       /\ stream # "started"

(***************************************************************************)
(* Properties of the update-loop threads (SpecSession).                    *)
(***************************************************************************)
\* C39.  Whatever start() and stop() calls were made, at most one
\* update-loop thread is inside update_cycle.
C39_OneUpdateLoop ==
    Cardinality({ i \in 1..Len(update_threads) : update_threads[i] = "body" })
        <= 1

(***************************************************************************)
(* Properties of the tempo across analysis cycles (SpecCycle).             *)
(***************************************************************************)
\* C40.  An analysis cycle whose tempo estimate has confidence 0 (no
\* estimate was made) leaves the context tempo as it was.
C40_NoEstimateKeepsTempo ==
    [][ ( AnalysisCycle /\ analysis'[1].tempo.confidence = 0 )
        => context'.tempo = context.tempo ]_vars

====================================================================
